---------------------------- MODULE Spec2Model ----------------------------
(***************************************************************************)
(* spacecore-orbits: TLE parsing, coverage geometry and the union          *)
(* coverage estimator of the App component, as a state machine.            *)
(*                                                                         *)
(* Text is modelled as sequences of one-character strings.  JavaScript     *)
(* numbers are modelled in two ways: numbers read from text keep their     *)
(* decimal digits (Num records), numbers of the geometry code are          *)
(* fixed-point integers (see the section on arithmetic).                   *)
(***************************************************************************)
EXTENDS Integers, Sequences, FiniteSets, TLC

VARIABLES
    tleSatellites,          \* App state: list of satellites
    satelliteCoverageData,  \* App state: satellite id -> coverage record
    minElevationAngle,      \* App state: global minimum elevation (degrees)
    globalCoverage,         \* App state: [percent, areaKm2] of the union
    gridCache,              \* gridCacheRef.current: key -> grid
    rendered,               \* the state the closures of the last render see
    timers,                 \* pending setTimeout(recomputeGlobalCoverage, 0)
    clock,                  \* Date.now() in milliseconds
    fn,                     \* pure-function harness: the function under call
    args,                   \* pure-function harness: its arguments
    result                  \* pure-function harness: what it returned

vars == <<tleSatellites, satelliteCoverageData, minElevationAngle,
          globalCoverage, gridCache, rendered, timers, clock,
          fn, args, result>>

appVars == <<tleSatellites, satelliteCoverageData, minElevationAngle,
             globalCoverage, gridCache, rendered, timers, clock>>

harnessVars == <<fn, args, result>>

(***************************************************************************)
(* Generic helpers                                                         *)
(***************************************************************************)
Max(a, b) == IF a >= b THEN a ELSE b
Min(a, b) == IF a <= b THEN a ELSE b
Abs(a) == IF a < 0 THEN -a ELSE a

(***************************************************************************)
(* TEXT                                                                    *)
(***************************************************************************)
DigitChars == <<"0","1","2","3","4","5","6","7","8","9">>

\* char >= '0' && char <= '9' on a one-character string
isDigit(c) == \E i \in 1..10 : DigitChars[i] = c

\* parseInt(char) of a digit character
DigitVal(c) == (CHOOSE i \in 1..10 : DigitChars[i] = c) - 1

\* A string argument: a defined string, or undefined/null.
Str(s) == [def |-> TRUE, s |-> s]
Undefined == [def |-> FALSE, s |-> <<>>]

\* String.prototype.substring(a, b) with 0 <= a <= b, clamped to the length
substring(s, a, b) == SubSeq(s, a + 1, Min(b, Len(s)))

\* s[i] with a 0-based index; "" stands for undefined (index out of range)
charAt(s, i) == IF i >= 0 /\ i < Len(s) THEN s[i + 1] ELSE ""

\* number of leading blanks of s from 1-based position i on
RECURSIVE BlankRun(_, _)
BlankRun(s, i) ==
    IF i <= Len(s) /\ s[i] = " " THEN 1 + BlankRun(s, i + 1) ELSE 0

\* number of consecutive digit characters of s from 1-based position i on
RECURSIVE DigitRun(_, _)
DigitRun(s, i) ==
    IF i <= Len(s) /\ isDigit(s[i]) THEN 1 + DigitRun(s, i + 1) ELSE 0

\* the digit values of s[i .. i+n-1]
DigitsOf(s, i, n) == [k \in 1..n |-> DigitVal(s[i + k - 1])]

\* String.prototype.trim()
RECURSIVE TrimRight(_)
TrimRight(s) ==
    IF Len(s) > 0 /\ s[Len(s)] = " " THEN TrimRight(SubSeq(s, 1, Len(s) - 1))
    ELSE s
trim(s) == TrimRight(SubSeq(s, BlankRun(s, 1) + 1, Len(s)))

(***************************************************************************)
(* NUMBERS READ FROM TEXT                                                  *)
(* A Num is NaN, +-Infinity, or the finite decimal                         *)
(*   (-1)^neg * (digs read as a decimal integer) * 10^e10.                 *)
(***************************************************************************)
NaN == [kind |-> "nan", neg |-> FALSE, digs |-> <<>>, e10 |-> 0]
Infinity(neg) == [kind |-> "inf", neg |-> neg, digs |-> <<>>, e10 |-> 0]
Finite(neg, digs, e10) == [kind |-> "fin", neg |-> neg, digs |-> digs, e10 |-> e10]

RECURSIVE ZeroRun(_, _)
ZeroRun(d, i) == IF i <= Len(d) /\ d[i] = 0 THEN 1 + ZeroRun(d, i + 1) ELSE 0

\* significant digits: digs without leading zeros
Significant(d) == SubSeq(d, ZeroRun(d, 1) + 1, Len(d))

\* decimal magnitude m of a nonzero finite Num: 10^(m-1) <= |x| < 10^m
Magnitude(x) == Len(Significant(x.digs)) + x.e10

\* IEEE-754 double range: below 1e-324 rounds to zero, from 1e309 on overflows
MinDecimalExponent == -324
MaxDecimalExponent == 309

\* the double a decimal literal denotes
ToDouble(x) ==
    IF x.kind # "fin" THEN x
    ELSE IF Len(Significant(x.digs)) = 0 THEN Finite(x.neg, <<0>>, 0)
    ELSE IF Magnitude(x) <= MinDecimalExponent THEN Finite(x.neg, <<0>>, 0)
    ELSE IF Magnitude(x) > MaxDecimalExponent THEN Infinity(x.neg)
    ELSE x

isNaN(x) == x.kind = "nan"
IsZero(x) == x.kind = "fin" /\ Len(Significant(x.digs)) = 0

\* x > 0, x >= 0, x < 1 as JavaScript evaluates them (false on NaN)
GtZero(x) == \/ x.kind = "inf" /\ ~x.neg
             \/ x.kind = "fin" /\ ~x.neg /\ ~IsZero(x)
GeZero(x) == \/ x.kind = "inf" /\ ~x.neg
             \/ x.kind = "fin" /\ (~x.neg \/ IsZero(x))
LtOne(x) == \/ x.kind = "inf" /\ x.neg
            \/ x.kind = "fin" /\ (x.neg \/ IsZero(x) \/ Magnitude(x) <= 0)

\* decimal digits read as an integer (short runs only)
RECURSIVE DigitsToInt(_)
DigitsToInt(d) ==
    IF Len(d) = 0 THEN 0
    ELSE 10 * DigitsToInt(SubSeq(d, 1, Len(d) - 1)) + d[Len(d)]

\* the integer value of an integral Num
IntValue(x) == (IF x.neg THEN -1 ELSE 1) * DigitsToInt(Significant(x.digs))

InfinityWord == <<"I","n","f","i","n","i","t","y">>

\* parseInt(string) in radix 10: blanks, sign, then the longest digit run
parseInt(s) ==
    LET i0 == BlankRun(s, 1) + 1
        signed == i0 <= Len(s) /\ s[i0] \in {"+", "-"}
        neg == signed /\ s[i0] = "-"
        i1 == IF signed THEN i0 + 1 ELSE i0
        n == DigitRun(s, i1)
    IN  IF n = 0 THEN NaN ELSE ToDouble(Finite(neg, DigitsOf(s, i1, n), 0))

\* parseFloat(string): blanks, sign, then the longest prefix that is a
\* StrDecimalLiteral: Infinity | digits [. [digits]] [exp] | . digits [exp]
parseFloat(s) ==
    LET i0 == BlankRun(s, 1) + 1
        signed == i0 <= Len(s) /\ s[i0] \in {"+", "-"}
        neg == signed /\ s[i0] = "-"
        i1 == IF signed THEN i0 + 1 ELSE i0
        n1 == DigitRun(s, i1)
        dotAt == i1 + n1
        hasDot == dotAt <= Len(s) /\ s[dotAt] = "."
        n2 == IF hasDot THEN DigitRun(s, dotAt + 1) ELSE 0
        \* the dot belongs to the literal when a digit stands on either side
        mantEnd == IF hasDot /\ (n1 > 0 \/ n2 > 0) THEN dotAt + 1 + n2 ELSE dotAt
        hasE == mantEnd <= Len(s) /\ s[mantEnd] \in {"e", "E"}
        eSigned == hasE /\ mantEnd + 1 <= Len(s) /\ s[mantEnd + 1] \in {"+", "-"}
        eNeg == eSigned /\ s[mantEnd + 1] = "-"
        eAt == IF eSigned THEN mantEnd + 2 ELSE mantEnd + 1
        n3 == IF hasE THEN DigitRun(s, eAt) ELSE 0
        expo == IF n3 = 0 THEN 0
                ELSE (IF eNeg THEN -1 ELSE 1) * DigitsToInt(DigitsOf(s, eAt, n3))
        digs == DigitsOf(s, i1, n1) \o
                (IF hasDot THEN DigitsOf(s, dotAt + 1, n2) ELSE <<>>)
    IN  IF SubSeq(s, i1, Min(i1 + 7, Len(s))) = InfinityWord THEN Infinity(neg)
        ELSE IF n1 = 0 /\ n2 = 0 THEN NaN
        ELSE ToDouble(Finite(neg, digs, expo - n2))

\* x * Math.pow(10, k) for a Num x and an integral Num k
TimesPow10(x, k) ==
    IF isNaN(x) \/ isNaN(k) THEN NaN
    ELSE IF x.kind = "inf" THEN x
    ELSE ToDouble(Finite(x.neg, x.digs, x.e10 + IntValue(k)))


\* a nonnegative integer as a Num
RECURSIVE IntToDigits(_)
IntToDigits(n) == IF n < 10 THEN <<n>> ELSE IntToDigits(n \div 10) \o <<n % 10>>
FromInt(n) == Finite(n < 0, IntToDigits(Abs(n)), 0)

(***************************************************************************)
(* TLE PARSER (utils/tleParser.js)                                         *)
(***************************************************************************)
TLE_MIN_LENGTH == 69

Pivot == 57

Thrown(msg) == [done |-> TRUE, ok |-> FALSE, error |-> msg]
Returned(v) == [done |-> TRUE, ok |-> TRUE, value |-> v]
NotCalled == [done |-> FALSE]

ERR_LENGTH == "Invalid TLE format: Lines must be at least 69 characters long"
ERR_START == "Invalid TLE format: Lines must start with \"1\" and \"2\""

\* a slip that takes the pivot year itself for a year of this century
fullEpochYear_pivotIncluded(epochYear) ==
    IF epochYear.kind # "fin" THEN epochYear
    ELSE FromInt(IntValue(epochYear)
                 + (IF IntValue(epochYear) <= Pivot THEN 2000 ELSE 1900))

\* epochYear + (epochYear < 57 ? 2000 : 1900)
fullEpochYear(epochYear) ==
    IF epochYear.kind # "fin" THEN epochYear
    ELSE LET y == IntValue(epochYear)
         IN  FromInt(y + (IF y < Pivot THEN 2000 ELSE 1900))

\* !tleLine: undefined, null and the empty string are falsy
falsy(tleLine) == ~tleLine.def \/ Len(tleLine.s) = 0

\* a slip that tests the length of the first line twice
linesTooShort_firstLineOnly(tleLine1, tleLine2) ==
    \/ falsy(tleLine1) \/ falsy(tleLine2)
    \/ Len(tleLine1.s) < TLE_MIN_LENGTH \/ Len(tleLine1.s) < TLE_MIN_LENGTH

\* !tleLine1 || !tleLine2 || tleLine1.length < 69 || tleLine2.length < 69
linesTooShort(tleLine1, tleLine2) ==
    \/ falsy(tleLine1) \/ falsy(tleLine2)
    \/ Len(tleLine1.s) < TLE_MIN_LENGTH \/ Len(tleLine2.s) < TLE_MIN_LENGTH

\* tleLine1[0] !== '1' || tleLine2[0] !== '2'
wrongLeadingDigit(tleLine1, tleLine2) ==
    charAt(tleLine1.s, 0) # "1" \/ charAt(tleLine2.s, 0) # "2"

\* parseTLE(tleLine1, tleLine2, name)
parseTLE(tleLine1, tleLine2, name) ==
    IF linesTooShort(tleLine1, tleLine2) THEN Thrown(ERR_LENGTH)
    ELSE IF wrongLeadingDigit(tleLine1, tleLine2) THEN Thrown(ERR_START)
    ELSE
      LET l1 == tleLine1.s
          l2 == tleLine2.s
          catalogNumber == parseInt(trim(substring(l1, 2, 7)))
          epochYear == parseInt(substring(l1, 18, 20))
          epochDay == parseFloat(substring(l1, 20, 32))
          meanMotionDerivative == parseFloat(substring(l1, 33, 43))
          bstar == TimesPow10(parseFloat(substring(l1, 53, 61)),
                              parseInt(substring(l1, 59, 61)))
          inclination == parseFloat(substring(l2, 8, 16))
          raan == parseFloat(substring(l2, 17, 25))
          eccentricity == parseFloat(<<"0", ".">> \o substring(l2, 26, 33))
          argumentOfPerigee == parseFloat(substring(l2, 34, 42))
          meanAnomaly == parseFloat(substring(l2, 43, 51))
          meanMotion == parseFloat(substring(l2, 52, 63))
      IN  Returned([name |-> name,
                    catalogNumber |-> catalogNumber,
                    epochYear |-> fullEpochYear(epochYear),
                    epochDay |-> epochDay,
                    inclination |-> inclination,
                    raan |-> raan,
                    eccentricity |-> eccentricity,
                    argumentOfPerigee |-> argumentOfPerigee,
                    meanAnomaly |-> meanAnomaly,
                    meanMotion |-> meanMotion,
                    meanMotionDerivative |-> meanMotionDerivative,
                    bstar |-> bstar])

\* the sum of the loop of validateTLEChecksum over positions 0 .. n-1
RECURSIVE ChecksumSum(_, _)
ChecksumSum(tleLine, n) ==
    IF n = 0 THEN 0
    ELSE LET char == tleLine[n]
         IN  ChecksumSum(tleLine, n - 1) +
             (IF isDigit(char) THEN DigitVal(char)
              ELSE IF char = "-" THEN 1 ELSE 0)

\* the bound of the loop: for (let i = 0; i < 68; i++)
CHECKSUM_POSITION == 68

\* a slip that leaves the '-' characters out of the sum
validateTLEChecksum_dashIgnored(tleLine) ==
    IF Len(tleLine) < TLE_MIN_LENGTH THEN FALSE
    ELSE LET sum == ChecksumSum([i \in 1..Len(tleLine) |->
                        IF tleLine[i] = "-" THEN " " ELSE tleLine[i]],
                                CHECKSUM_POSITION)
             checksum == parseInt(<<charAt(tleLine, CHECKSUM_POSITION)>>)
         IN  checksum.kind = "fin" /\ (sum % 10) = IntValue(checksum)

\* a slip that stops the loop one position early
validateTLEChecksum_shortLoop(tleLine) ==
    IF Len(tleLine) < TLE_MIN_LENGTH THEN FALSE
    ELSE LET sum == ChecksumSum(tleLine, CHECKSUM_POSITION - 1)
             checksum == parseInt(<<charAt(tleLine, CHECKSUM_POSITION)>>)
         IN  checksum.kind = "fin" /\ (sum % 10) = IntValue(checksum)

\* validateTLEChecksum(tleLine)
validateTLEChecksum(tleLine) ==
    IF Len(tleLine) < TLE_MIN_LENGTH THEN FALSE
    ELSE LET sum == ChecksumSum(tleLine, CHECKSUM_POSITION)
             checksum == parseInt(<<charAt(tleLine, CHECKSUM_POSITION)>>)
         IN  checksum.kind = "fin" /\ (sum % 10) = IntValue(checksum)

\* SAMPLE_TLES
ISS_LINE1 ==
    <<"1"," ","2","5","5","4","4","U"," ","9","8","0","6","7","A"," "," "," ","2","4","0","0","1",".","0","0","0","0","0","0","0","0"," "," ",".","0","0","0","2","0","1","3","7"," "," ","0","0","0","0","0","-","0"," "," ","1","6","5","3","8","-","3"," ","0"," "," ","9","9","9","3">>
ISS_LINE2 ==
    <<"2"," ","2","5","5","4","4"," "," ","5","1",".","6","4","6","1"," ","3","3","9",".","2","3","7","7"," ","0","0","0","1","0","7","8"," "," ","8","8",".","2","5","4","8"," ","2","7","1",".","9","1","4","2"," ","1","5",".","4","8","9","1","9","1","0","3","1","2","3","4","5","6">>
HUBBLE_LINE1 ==
    <<"1"," ","2","0","5","8","0","U"," ","9","0","0","3","7","B"," "," "," ","2","4","0","0","1",".","0","0","0","0","0","0","0","0"," "," ",".","0","0","0","0","0","0","0","0"," "," ","0","0","0","0","0","-","0"," "," ","0","0","0","0","0","-","0"," ","0"," "," ","9","9","9","1">>
HUBBLE_LINE2 ==
    <<"2"," ","2","0","5","8","0"," "," ","2","8",".","4","6","8","4"," ","2","8","8",".","8","5","4","2"," ","0","0","0","2","9","7","8"," ","3","2","1",".","7","7","7","1"," "," ","3","8",".","2","4","9","6"," ","1","5",".","0","9","2","9","9","7","4","3","6","5","4","3","2","1">>
MOLNIYA_LINE1 ==
    <<"1"," ","2","5","4","8","5","U"," ","9","8","0","5","4","A"," "," "," ","2","5","2","2","0",".","2","5","2","3","8","0","0","0"," "," ","-",".","0","0","0","0","0","0","4","5"," "," ","0","0","0","0","0","+","0"," "," ","0","0","0","0","0","+","0"," ","0"," "," ","9","9","9","9">>
MOLNIYA_LINE2 ==
    <<"2"," ","2","5","4","8","5"," "," ","6","4",".","5","3","8","7"," ","3","3","1",".","0","5","4","4"," ","6","7","7","2","9","0","7"," ","2","8","6",".","8","5","6","0"," ","1","3",".","3","6","6","1"," "," ","2",".","3","6","4","4","1","3","9","9"," ","2","0","6","1","7","9">>

SAMPLE_TLES ==
    [ISS |-> [name |-> "ISS (ZARYA)", line1 |-> ISS_LINE1, line2 |-> ISS_LINE2],
     HUBBLE |-> [name |-> "Hubble Space Telescope",
                 line1 |-> HUBBLE_LINE1, line2 |-> HUBBLE_LINE2],
     MOLNIYA |-> [name |-> "MOLNIYA 1-91",
                  line1 |-> MOLNIYA_LINE1, line2 |-> MOLNIYA_LINE2]]


(***************************************************************************)
(* ARITHMETIC                                                              *)
(* A JavaScript number of the geometry code is the integer nearest to      *)
(* SCALE times its value.  Every operation rounds its exact result to the  *)
(* nearest representable value, as the IEEE operation does.  The integers  *)
(* of the model checker have 32 bits, so a product is formed from the      *)
(* LIMB-sized halves of its factors.                                       *)
(***************************************************************************)
LIMB == 10^4
SCALE == LIMB * LIMB

Sign(a) == IF a < 0 THEN -1 ELSE 1

\* <<hi + carry, lo>> for a low part that may exceed SCALE
Carry(hi, low) == <<hi + low \div SCALE, low % SCALE>>

\* the product from the products of the limbs: high, cross and low
FromLimbs(hh, cross, ll) ==
    Carry(hh + cross \div LIMB, (cross % LIMB) * LIMB + ll)

\* the exact product of a, b >= 0 as <<hi, lo>>: a * b = hi * SCALE + lo
MulFull(a, b) ==
    FromLimbs((a \div LIMB) * (b \div LIMB),
              (a \div LIMB) * (b % LIMB) + (a % LIMB) * (b \div LIMB),
              (a % LIMB) * (b % LIMB))

\* <<hi, lo>> rounded to the nearest multiple of SCALE, in units of SCALE
RoundHalf(p) == p[1] + (IF 2 * p[2] >= SCALE THEN 1 ELSE 0)

\* a * b
Mul(a, b) == Sign(a) * Sign(b) * RoundHalf(MulFull(Abs(a), Abs(b)))

\* one step of the long division: h = <<q, r>> for b \div 2 gives it for b
MulDivStep(h, a, odd, c) ==
    <<2 * h[1] + (2 * h[2] + (IF odd THEN a ELSE 0)) \div c,
      (2 * h[2] + (IF odd THEN a ELSE 0)) % c>>

\* <<q, r>> with a * b = q * c + r and 0 <= r < c, for 0 <= a < c
RECURSIVE MulDivRem(_, _, _)
MulDivRem(a, b, c) ==
    IF b = 0 THEN <<0, 0>>
    ELSE MulDivStep(MulDivRem(a, b \div 2, c), a, b % 2 = 1, c)

\* the quotient <<q, r>> rounded to the nearest integer
RoundQuotient(qr, c) == qr[1] + (IF 2 * qr[2] >= c THEN 1 ELSE 0)

\* a * b / c rounded to the nearest integer, c > 0
MulDiv(a, b, c) ==
    Sign(a) * Sign(b) *
    ((Abs(a) \div c) * Abs(b) + RoundQuotient(MulDivRem(Abs(a) % c, Abs(b), c), c))

\* a / b
Div(a, b) == Sign(b) * MulDiv(a, SCALE, Abs(b))

\* p <= x * SCALE for the exact product p = <<hi, lo>>
AtMost(p, x) == p[1] < x \/ (p[1] = x /\ p[2] = 0)

\* the largest y in lo..hi with y * y <= x (exact comparison)
RECURSIVE SqrtSearch(_, _, _)
SqrtSearch(x, lo, hi) ==
    IF hi - lo <= 1 THEN lo
    ELSE IF AtMost(MulFull(lo + (hi - lo) \div 2, lo + (hi - lo) \div 2), x)
    THEN SqrtSearch(x, lo + (hi - lo) \div 2, hi)
    ELSE SqrtSearch(x, lo, lo + (hi - lo) \div 2)

\* the largest argument whose square is representable
SQRT_MAX == 46340 * LIMB

\* y or y + 1, whichever is nearer to the root of x; sq = y * y exactly, and
\* x * SCALE - y * y is at most 2 * y
SqrtRound(x, y, sq) == IF (x - sq[1]) * SCALE - sq[2] > y THEN y + 1 ELSE y

\* the root of x from its integer part y
SqrtFrom(x, y) == SqrtRound(x, y, MulFull(y, y))

\* Math.sqrt(x), x >= 0
Sqrt(x) == SqrtFrom(x, SqrtSearch(x, 0, SQRT_MAX))

Pi == 314159265
HalfPi == 157079633
QuarterPi == 78539816
TwoPi == 2 * Pi

\* one step of the series: 1 - t * acc / d
Horner(t, acc, d) == SCALE - (Mul(t, acc) + d \div 2) \div d

\* the divisors (2k-1)(2k) of the cosine series and (2k)(2k+1) of the sine
\* series, innermost last
CosDivisors == <<2, 12, 30, 56, 90>>
SinDivisors == <<6, 20, 42, 72, 110>>

\* the series in t = y^2 from term k on
RECURSIVE Series(_, _, _)
Series(t, dv, k) ==
    IF k > Len(dv) THEN SCALE ELSE Horner(t, Series(t, dv, k + 1), dv[k])

\* cos(y) (series up to y^10 / 10!) or sin(y) (up to y^11 / 11!) from the
\* series value v
TimesArgument(sine, y, v) == IF sine THEN Mul(y, v) ELSE v

\* cos(y) or sin(y) for 0 <= y <= pi/4
TrigSmall(sine, y) ==
    TimesArgument(sine, y,
                  Series(Mul(y, y), IF sine THEN SinDivisors ELSE CosDivisors, 1))

\* cos and sin on the first quadrant
CosQ(a) == TrigSmall(a > QuarterPi, IF a <= QuarterPi THEN a ELSE Max(0, HalfPi - a))
SinQ(a) == TrigSmall(a <= QuarterPi, IF a <= QuarterPi THEN a ELSE Max(0, HalfPi - a))

\* the angle of the first quadrant with the same cosine and sine up to sign,
\* for 0 <= a < 2 pi
FirstQuadrant(a) ==
    IF a <= HalfPi THEN a
    ELSE IF a <= Pi THEN Pi - a
    ELSE IF a <= Pi + HalfPi THEN a - Pi
    ELSE TwoPi - a

\* Math.cos(x)
Cos(x) ==
    (IF x % TwoPi <= HalfPi \/ x % TwoPi > Pi + HalfPi THEN 1 ELSE -1)
      * CosQ(FirstQuadrant(x % TwoPi))

\* Math.sin(x)
Sin(x) == (IF x % TwoPi <= Pi THEN 1 ELSE -1) * SinQ(FirstQuadrant(x % TwoPi))

\* the sine v is at least x, or the cosine v is at most x
Reached(sine, v, x) == IF sine THEN v >= x ELSE v <= x

\* the smallest angle in lo+1..hi whose cosine is at most x (sine = FALSE),
\* or whose sine is at least x (sine = TRUE)
RECURSIVE AngleSearch(_, _, _, _)
AngleSearch(sine, x, lo, hi) ==
    IF hi - lo <= 1 THEN hi
    ELSE IF Reached(sine, TrigSmall(sine, lo + (hi - lo) \div 2), x)
    THEN AngleSearch(sine, x, lo, lo + (hi - lo) \div 2)
    ELSE AngleSearch(sine, x, lo + (hi - lo) \div 2, hi)

\* cos(pi/4)
Cos45 == 70710678

\* Math.acos(x) for 0 <= x <= 1
AcosPos(x) ==
    IF x >= SCALE THEN 0
    ELSE IF x = 0 THEN HalfPi
    ELSE (IF x >= Cos45 THEN 0 ELSE HalfPi)
           + (IF x >= Cos45 THEN 1 ELSE -1)
               * AngleSearch(x < Cos45, x, -1, QuarterPi + 1)

\* acos(-x) = pi - acos(x)
Reflect(neg, y) == IF neg THEN Pi - y ELSE y

\* Math.acos(x) for -1 <= x <= 1
Acos(x) == Reflect(x < 0, AcosPos(Abs(x)))

(***************************************************************************)
(* LONG ARITHMETIC                                                         *)
(* The propagator works on doubles (about sixteen significant digits) and  *)
(* stops its iteration at 1e-12.  A long number is a tuple of five limbs   *)
(* <<a0, a1, a2, a3, a4>> standing for a0 + a1/LIMB + ... + a4/LIMB^4:     *)
(* a0 is a signed integer and a1 .. a4 lie in 0 .. LIMB-1, so the          *)
(* resolution is 1e-16.                                                    *)
(***************************************************************************)
\* the carry that the limbs k, k+1, ... of t send into limb k-1
RECURSIVE BigCarryOut(_, _)
BigCarryOut(t, k) ==
    IF k > Len(t) THEN 0 ELSE (t[k] + BigCarryOut(t, k + 1)) \div LIMB

BigLimb(t, k) == (t[k] + BigCarryOut(t, k + 1)) % LIMB

\* the first five limbs of t, each but the first brought into 0 .. LIMB-1
BigNormal(t) ==
    <<t[1] + BigCarryOut(t, 2), BigLimb(t, 2), BigLimb(t, 3), BigLimb(t, 4), BigLimb(t, 5)>>

BigInt(n) == <<n, 0, 0, 0, 0>>
BigAdd(a, b) ==
    BigNormal(<<a[1] + b[1], a[2] + b[2], a[3] + b[3], a[4] + b[4], a[5] + b[5]>>)
BigSub(a, b) ==
    BigNormal(<<a[1] - b[1], a[2] - b[2], a[3] - b[3], a[4] - b[4], a[5] - b[5]>>)
BigNeg(a) == BigSub(BigInt(0), a)
BigTimes(a, n) == BigNormal(<<a[1] * n, a[2] * n, a[3] * n, a[4] * n, a[5] * n>>)
BigLess(a, b) == BigSub(a, b)[1] < 0
BigLeq(a, b) == ~BigLess(b, a)
BigAbs(a) == IF a[1] < 0 THEN BigNeg(a) ELSE a

\* the sum of a[i] * b[j] over i + j = k + 1, lo <= i <= hi
RECURSIVE BigConv(_, _, _, _, _)
BigConv(a, b, k, lo, hi) ==
    IF lo > hi THEN 0 ELSE a[lo] * b[k + 1 - lo] + BigConv(a, b, k, lo + 1, hi)

\* a * b rounded to nearest: the nine limbs of the exact product, with half
\* a unit of the fifth limb added at the sixth
BigMul(a, b) ==
    BigNormal(<<BigConv(a, b, 1, 1, 1), BigConv(a, b, 2, 1, 2),
                BigConv(a, b, 3, 1, 3), BigConv(a, b, 4, 1, 4),
                BigConv(a, b, 5, 1, 5), BigConv(a, b, 6, 2, 5) + LIMB \div 2,
                BigConv(a, b, 7, 3, 5), BigConv(a, b, 8, 4, 5),
                BigConv(a, b, 9, 5, 5)>>)

\* a / n for an integer 0 < n < 2^31 / LIMB, rounded down
RECURSIVE BigShortDivision(_, _, _, _)
BigShortDivision(a, n, k, rem) ==
    IF k > Len(a) THEN <<>>
    ELSE <<(rem * LIMB + a[k]) \div n>>
            \o BigShortDivision(a, n, k + 1, (rem * LIMB + a[k]) % n)

BigOver(a, n) == <<a[1] \div n>> \o BigShortDivision(a, n, 2, a[1] % n)

\* x is Newton's iterate after prev: the iteration stops when it no longer
\* moves, and after `steps` further steps at the latest
BigSettled(prev, x, steps) == x = prev \/ steps = 0

\* 1 / g for 0.05 < |g| < 20: Newton's iteration from the quotient of the
\* leading limbs
BigRecipStep(g, r) == BigMul(r, BigSub(BigInt(2), BigMul(g, r)))

RECURSIVE BigRecipFrom(_, _, _, _)
BigRecipFrom(g, prev, r, steps) ==
    IF BigSettled(prev, r, steps) THEN r
    ELSE BigRecipFrom(g, r, BigRecipStep(g, r), steps - 1)

BigRecipPos(g) ==
    BigRecipFrom(g, BigInt(0), BigOver(BigInt(LIMB), g[1] * LIMB + g[2]), 4)
BigRecip(g) == IF g[1] < 0 THEN BigNeg(BigRecipPos(BigNeg(g))) ELSE BigRecipPos(g)
BigDiv(a, g) == BigMul(a, BigRecip(g))

\* Math.sqrt(c) for 0.01 <= c <= 16: Newton's iteration from (1 + c) / 2
RECURSIVE BigSqrtFrom(_, _, _, _)
BigSqrtFrom(c, prev, x, steps) ==
    IF BigSettled(prev, x, steps) THEN x
    ELSE BigSqrtFrom(c, x, BigOver(BigAdd(x, BigDiv(c, x)), 2), steps - 1)

BigSqrt(c) ==
    IF c = BigInt(0) THEN c
    ELSE BigSqrtFrom(c, BigInt(0), BigOver(BigAdd(BigInt(1), c), 2), 10)

\* Math.pow(c, 1/3) for 0.03 <= c <= 20: Newton's iteration from 1
RECURSIVE BigCbrtFrom(_, _, _, _)
BigCbrtFrom(c, prev, x, steps) ==
    IF BigSettled(prev, x, steps) THEN x
    ELSE BigCbrtFrom(c, x,
             BigOver(BigAdd(BigTimes(x, 2), BigDiv(BigDiv(c, x), x)), 3), steps - 1)

BigCbrt(c) == BigCbrtFrom(c, BigInt(0), BigInt(1), 12)

BigPi == <<3, 1415, 9265, 3589, 7932>>
BigHalfPi == <<1, 5707, 9632, 6794, 8966>>
BigTwoPi == <<6, 2831, 8530, 7179, 5865>>

\* sum + term - term t/(n(n+1)) + term t^2/(n(n+1)(n+2)(n+3)) - ...: the
\* Taylor series of cos (term 1, n 1) and sin (term x, n 2) at t = x^2,
\* summed until the terms vanish
RECURSIVE BigSeries(_, _, _, _)
BigSeries(sum, term, t, n) ==
    IF term = BigInt(0) \/ n > 24 THEN sum
    ELSE BigSeries(BigAdd(sum, term),
                   BigNeg(BigOver(BigMul(term, t), n * (n + 1))), t, n + 2)

BigCosSmall(r) == BigSeries(BigInt(0), BigInt(1), BigMul(r, r), 1)
BigSinSmall(r) == BigSeries(BigInt(0), r, BigMul(r, r), 2)

\* the multiple of pi/2 nearest to x, for |x| < 200000
BigQuadrant(x) == (x[1] * LIMB + x[2] + 7854) \div 15708
BigReduced(x) == BigSub(x, BigTimes(BigHalfPi, BigQuadrant(x)))

\* sin(r + q * pi/2) from the series at r
BigSinAt(r, q) ==
    CASE q % 4 = 0 -> BigSinSmall(r)
      [] q % 4 = 1 -> BigCosSmall(r)
      [] q % 4 = 2 -> BigNeg(BigSinSmall(r))
      [] q % 4 = 3 -> BigNeg(BigCosSmall(r))

\* Math.sin(x), Math.cos(x)
BigSin(x) == BigSinAt(BigReduced(x), BigQuadrant(x))
BigCos(x) == BigSinAt(BigReduced(x), BigQuadrant(x) + 1)

\* Math.atan2(y, x): the angle in (-pi, pi] of the direction (x, y), found
\* by Newton's iteration on x sin(t) - y cos(t) from the nearest half-axis
BigAngleStep(y, x, t) ==
    BigSub(t, BigDiv(BigSub(BigMul(x, BigSin(t)), BigMul(y, BigCos(t))),
                     BigAdd(BigMul(x, BigCos(t)), BigMul(y, BigSin(t)))))

RECURSIVE BigAngleFrom(_, _, _, _, _)
BigAngleFrom(y, x, prev, t, steps) ==
    IF BigSettled(prev, t, steps) THEN t
    ELSE BigAngleFrom(y, x, t, BigAngleStep(y, x, t), steps - 1)

BigHalfAxis(y, x) ==
    IF BigLeq(BigAbs(y), BigAbs(x))
    THEN (IF x[1] < 0 THEN BigPi ELSE BigInt(0))
    ELSE (IF y[1] < 0 THEN BigNeg(BigHalfPi) ELSE BigHalfPi)

BigIntoTurn(t) == IF BigLess(BigPi, t) THEN BigSub(t, BigTwoPi) ELSE t

BigAtan2(y, x) ==
    IF x = BigInt(0) /\ y = BigInt(0) THEN BigInt(0)
    ELSE BigIntoTurn(BigAngleFrom(y, x, BigInt(9), BigHalfAxis(y, x), 6))

(***************************************************************************)
(* UNITS                                                                   *)
(* Scene lengths, ratios and radians are fixed-point numbers (SCALE).      *)
(* Kilometres are counted in units of 1/KM km, areas in whole km^2,        *)
(* percentages in units of 1/PERCENT percent and degrees in units of       *)
(* 1/DEG degree.                                                           *)
(***************************************************************************)
KM == 10^3
PERCENT == 10^6
DEG == 10^3

\* deg * Math.PI / 180 for an angle in units of 1/DEG degree
DegreesToRadians(d) == MulDiv(d, Pi, 180 * DEG)

\* rad * 180 / Math.PI in units of 1/DEG degree
RadiansToDegrees(r) == MulDiv(r, 180 * DEG, Pi)

(***************************************************************************)
(* A number that may be NaN or infinite, with a part below the resolution  *)
(* of the fixed-point numbers: the value of a finite one is                *)
(*   q / SCALE + f * 10^-13,  |f| < FINE.                                  *)
(***************************************************************************)
FINE == 10^5
Fin(q) == [kind |-> "fin", q |-> q, f |-> 0]
FinPlus(q, f) == [kind |-> "fin", q |-> q, f |-> f]
NotANumber == [kind |-> "nan", q |-> 0, f |-> 0]

\* isFinite(x)
isFinite(x) == x.kind = "fin"

\* x <= 0
LeZero(x) ==
    \/ x.kind = "fin" /\ (x.q < 0 \/ (x.q = 0 /\ x.f <= 0))
    \/ x.kind = "-inf"

\* 1e-12, in units of 10^-13
EPS == 10

(***************************************************************************)
(* COVERAGE GEOMETRY (components/TLESatellite.js)                          *)
(***************************************************************************)
\* Earth radius in the scene
EARTH_RADIUS == 2 * SCALE

\* 6378.137 km
REAL_EARTH_RADIUS == 6378137

Vec(x, y, z) == [x |-> x, y |-> y, z |-> z]

\* x*x + y*y + z*z
NormSquared(v) == Mul(v.x, v.x) + Mul(v.y, v.y) + Mul(v.z, v.z)

\* Math.sqrt(x*x + y*y + z*z)
satDistance(satellitePosition) == Sqrt(NormSquared(satellitePosition))

\* a slip that takes the scene radius of the Earth for 1
realSatDistance_unitRadius(satellitePosition) ==
    MulDiv(satDistance(satellitePosition), REAL_EARTH_RADIUS, SCALE)

\* (satDistance / EARTH_RADIUS) * REAL_EARTH_RADIUS
realSatDistance(satellitePosition) ==
    MulDiv(satDistance(satellitePosition), REAL_EARTH_RADIUS, EARTH_RADIUS)

\* Math.min(1, Math.max(-1, x))
ClampUnit(x) == Min(SCALE, Max(-SCALE, x))

\* Math.max(0, Math.min(90, minElevationAngle)) * degToRad, whole degrees
eRad(minElevation) == DegreesToRadians(Max(0, Min(90, minElevation)) * DEG)

\* a slip that leaves out the elevation constraint: the horizon angle psi0
psi_e_horizon(u, minElevation) == Acos(ClampUnit(u))

\* Math.max(0, Math.acos(clamp(u * Math.cos(eRad))) - eRad)
psi_e(u, minElevation) ==
    Max(0, Acos(ClampUnit(Mul(u, Cos(eRad(minElevation))))) - eRad(minElevation))

\* 2 * Math.PI * R * R, in km^2
TwoPiR2 ==
    MulDiv(2 * MulDiv(REAL_EARTH_RADIUS, REAL_EARTH_RADIUS, KM * KM), Pi, SCALE)

\* 2 * Math.PI * R * R * (1 - Math.cos(psi))
sphericalCapArea(psi) == MulDiv(TwoPiR2, SCALE - Cos(psi), SCALE)

\* 4 * Math.PI * R * R
totalEarthArea == 2 * TwoPiR2

\* (sphericalCapArea / totalEarthArea) * 100
coveragePercentage(psi) ==
    MulDiv(sphericalCapArea(psi), 100 * PERCENT, totalEarthArea)

DegenerateCoverage ==
    [height |-> 0, radius |-> 0, angle |-> Fin(0), coverageRadius |-> 0,
     coveragePercentage |-> 0, coverageAreaKm2 |-> 0,
     centralAngle |-> Fin(0), satelliteAltitudeKm |-> 0]

\* coneHeight: max(0, d - R * cos(psi)), the height above the plane of the
\* coverage circle, scaled to the scene
coneHeight(d, psi) ==
    MulDiv(Max(0, d - MulDiv(REAL_EARTH_RADIUS, Cos(psi), SCALE)),
           EARTH_RADIUS, REAL_EARTH_RADIUS)

\* coneBaseRadius: R * sin(psi), scaled to the scene
coneBaseRadius(psi) ==
    MulDiv(MulDiv(REAL_EARTH_RADIUS, Sin(psi), SCALE),
           EARTH_RADIUS, REAL_EARTH_RADIUS)

\* the record returned for a satellite at real distance d whose cap has the
\* central angle psi
CoverageRecord(d, psi) ==
    [height |-> coneHeight(d, psi),
     radius |-> coneBaseRadius(psi),
     angle |-> Fin(psi),
     coverageRadius |-> coneBaseRadius(psi),
     coveragePercentage |-> coveragePercentage(psi),
     coverageAreaKm2 |-> sphericalCapArea(psi),
     centralAngle |-> Fin(psi),
     satelliteAltitudeKm |-> d - REAL_EARTH_RADIUS]

\* calculateCoverageGeometry from realSatDistance = d on, with u = R / d
CoverageAtDistance(d, minElevation) ==
    IF d <= REAL_EARTH_RADIUS THEN DegenerateCoverage
    ELSE CoverageRecord(d, psi_e(Div(REAL_EARTH_RADIUS, d), minElevation))

\* calculateCoverageGeometry(satellitePosition), with the minElevationAngle
\* prop of the component
calculateCoverageGeometry(satellitePosition, minElevation) ==
    CoverageAtDistance(realSatDistance(satellitePosition), minElevation)

\* v scaled by 1 / len when len > 0, else (0, 1, 0): the direction useFrame
\* takes for a position of length len
normalize(v, len) ==
    IF len > 0 THEN Vec(Div(v.x, len), Div(v.y, len), Div(v.z, len))
    ELSE Vec(0, SCALE, 0)

\* satellitePosition.clone().normalize(), (0, 1, 0) for the zero vector
directionUnit(scenePos) == normalize(scenePos, satDistance(scenePos))

\* { ...coverage, direction }: what useFrame hands to onCoverageUpdate
coverageUpdate(scenePos, minElevation) ==
    [direction |-> directionUnit(scenePos)]
        @@ calculateCoverageGeometry(scenePos, minElevation)

(***************************************************************************)
(* UNION COVERAGE (App.js)                                                 *)
(***************************************************************************)
\* 4 * Math.PI * R * R with R = REAL_EARTH_RADIUS_KM, in km^2
totalEarthAreaKm2 ==
    MulDiv(4 * MulDiv(REAL_EARTH_RADIUS, REAL_EARTH_RADIUS, KM * KM), Pi, SCALE)

\* the angles of every grid are multiples of 1/8 degree
EIGHTH == DEG \div 8
FULL_TURN == 360 * DEG

\* Math.cos and Math.sin of the multiples of 1/8 degree
GridTrig ==
    [m \in 0..(FULL_TURN \div EIGHTH - 1) |->
        <<Cos(DegreesToRadians(m * EIGHTH)), Sin(DegreesToRadians(m * EIGHTH))>>]

\* Math.cos((a * Math.PI) / 180) for a multiple of 1/8 degree
CosDeg(a) == GridTrig[(a % FULL_TURN) \div EIGHTH][1]

\* Math.sin((a * Math.PI) / 180) for a multiple of 1/8 degree
SinDeg(a) == GridTrig[(a % FULL_TURN) \div EIGHTH][2]

\* Math.round(a / b) for a, b > 0
Round(a, b) == (2 * a + b) \div (2 * b)

\* a slip that rounds the steps of the key to whole degrees
GridKey_rounded(latStepDeg, lonStepDeg) ==
    <<Round(latStepDeg, DEG) * DEG, Round(lonStepDeg, DEG) * DEG>>

\* `${latStepDeg}:${lonStepDeg}`
GridKey(latStepDeg, lonStepDeg) == <<latStepDeg, lonStepDeg>>

\* the grid of a resolution: points[i * lonSteps + j] is Point(grid, i, j)
\* and weights[i * lonSteps + j] is bandAreaFracPerLon(grid, i)
NewGrid(latStepDeg, lonStepDeg) ==
    [latStepDeg |-> latStepDeg,
     lonStepDeg |-> lonStepDeg,
     latSteps |-> Round(180 * DEG, latStepDeg),
     lonSteps |-> Round(360 * DEG, lonStepDeg)]

\* a slip that stores a grid it builds in a cache of its own
getLatLonGrid_freshCache(cache, latStepDeg, lonStepDeg) ==
    [grid |-> NewGrid(latStepDeg, lonStepDeg),
     cache |-> (GridKey(latStepDeg, lonStepDeg) :> NewGrid(latStepDeg, lonStepDeg))]

\* getLatLonGrid(latStepDeg, lonStepDeg) on the cache gridCacheRef.current:
\* the grid, and the cache afterwards
getLatLonGrid(cache, latStepDeg, lonStepDeg) ==
    IF GridKey(latStepDeg, lonStepDeg) \in DOMAIN cache
    THEN [grid |-> cache[GridKey(latStepDeg, lonStepDeg)], cache |-> cache]
    ELSE [grid |-> NewGrid(latStepDeg, lonStepDeg),
          cache |-> (GridKey(latStepDeg, lonStepDeg)
                        :> NewGrid(latStepDeg, lonStepDeg)) @@ cache]

\* lat1 = -90 + i * latStepDeg
lat1(grid, i) == -90 * DEG + i * grid.latStepDeg

\* lat2 = lat1 + latStepDeg
lat2(grid, i) == lat1(grid, i) + grid.latStepDeg

\* (lat1 + lat2) / 2
latCenter(grid, i) == (lat1(grid, i) + lat2(grid, i)) \div 2

\* -180 + (j + 0.5) * lonStepDeg
lonCenter(grid, j) == -180 * DEG + j * grid.lonStepDeg + grid.lonStepDeg \div 2

\* { x: cosPhi * cosLambda, y: sinPhi, z: cosPhi * sinLambda }
Point(grid, i, j) ==
    Vec(Mul(CosDeg(latCenter(grid, i)), CosDeg(lonCenter(grid, j))),
        SinDeg(latCenter(grid, i)),
        Mul(CosDeg(latCenter(grid, i)), SinDeg(lonCenter(grid, j))))

\* the weight of count samples of band i: count times
\* ((lonStepDeg * Math.PI) / 180) * (sinPhi2 - sinPhi1) / (4 * Math.PI)
BandWeight(grid, i, count) ==
    MulDiv(count * grid.lonStepDeg,
           SinDeg(lat2(grid, i)) - SinDeg(lat1(grid, i)), 720 * DEG)

\* a + 1e-12 >= b + c for numbers a, b with a part below the resolution
GeWithinEps(a, b, c) ==
    \/ a.q > b.q + c
    \/ a.q = b.q + c /\ a.f + EPS >= b.f

\* const active = tleSatellites.filter(s => s.showCoverage)
active_everySatellite(sats) == sats

\* const active = tleSatellites.filter(s => s.showCoverage)
active(sats) == SelectSeq(sats, LAMBDA s : s.showCoverage)

\* active.map(s => s.id)
activeSatIds(sats) == [k \in 1..Len(active(sats)) |-> active(sats)[k].id]

\* the test that skips an id:
\* !cov || !cov.direction || !isFinite(cov.centralAngle) || cov.centralAngle <= 0
skipped(coverageData, id) ==
    \/ id \notin DOMAIN coverageData
    \/ "direction" \notin DOMAIN coverageData[id]
    \/ ~isFinite(coverageData[id].centralAngle)
    \/ LeZero(coverageData[id].centralAngle)

\* Math.sqrt(x * x + y * y + z * z) || 1, for the square root len
dirLen(len) == IF len = 0 THEN SCALE ELSE len

\* { ux, uy, uz, cosThreshold, psi: cov.centralAngle } with ux = x / len, ...
rawSatOfLength(cov, len) ==
    [ux |-> Div(cov.direction.x, len),
     uy |-> Div(cov.direction.y, len),
     uz |-> Div(cov.direction.z, len),
     cosThreshold |-> Cos(cov.centralAngle.q),
     psi |-> cov.centralAngle]

\* the element pushed on rawSats for the coverage data cov
rawSat(cov) == rawSatOfLength(cov, dirLen(Sqrt(NormSquared(cov.direction))))

\* rawSats after a loop that skips none of ids
rawSatsOf(coverageData, ids) ==
    [k \in 1..Len(ids) |-> rawSat(coverageData[ids[k]])]

\* rawSats after the loop over activeSatIds
rawSats(sats, coverageData) ==
    rawSatsOf(coverageData,
              SelectSeq(activeSatIds(sats), LAMBDA id : ~skipped(coverageData, id)))

\* ux * ux' + uy * uy' + uz * uz'
Dot(a, b) == Mul(a.ux, b.ux) + Mul(a.uy, b.uy) + Mul(a.uz, b.uz)

\* contained: some other cap aj has aj.psi >= ai.psi + sep - 1e-12
contained(raw, i) ==
    \E j \in 1..Len(raw) :
        /\ i # j
        /\ GeWithinEps(raw[j].psi, raw[i].psi, Acos(ClampUnit(Dot(raw[i], raw[j]))))

\* the indices of rawSats that survive the loop, in order
RECURSIVE keptFrom(_, _)
keptFrom(raw, i) ==
    IF i > Len(raw) THEN <<>>
    ELSE (IF contained(raw, i) THEN <<>> ELSE <<i>>) \o keptFrom(raw, i + 1)

\* the elements of raw at the indices idx
pushed(raw, idx) == [k \in 1..Len(idx) |-> raw[idx[k]]]

\* sats: the caps that no other cap contains
dropDominated(raw) == pushed(raw, keptFrom(raw, 1))

\* the least number of a finite non-empty set
Least(S) == CHOOSE m \in S : \A d \in S : m <= d

\* sats.reduce((m, s) => Math.min(m, s.psi * 180 / Math.PI), Infinity), for
\* at least one cap
minPsiDeg(sats) ==
    Least({RadiansToDegrees(sats[k].psi.q) : k \in 1..Len(sats)})

MANY_CAPS == 40
SEVERAL_CAPS == 20
SMALL_CAP_DEG == 3
MEDIUM_CAP_DEG == 6

\* a slip that takes the finer grid from 3 and from 6 degrees on
stepFor_inclusive(length, minPsi) ==
    IF length > MANY_CAPS \/ minPsi <= SMALL_CAP_DEG * DEG
    THEN DEG \div 4
    ELSE IF length > SEVERAL_CAPS \/ minPsi <= MEDIUM_CAP_DEG * DEG
    THEN DEG \div 2
    ELSE DEG

\* latStep = lonStep for length caps, the smallest of minPsi degrees
stepFor(length, minPsi) ==
    IF length > MANY_CAPS \/ minPsi < SMALL_CAP_DEG * DEG
    THEN DEG \div 4
    ELSE IF length > SEVERAL_CAPS \/ minPsi < MEDIUM_CAP_DEG * DEG
    THEN DEG \div 2
    ELSE DEG

\* latStep = lonStep: 1.0, 0.5 or 0.25 degrees
chooseStep(sats) == stepFor(Len(sats), minPsiDeg(sats))

\* dot + eps >= s.cosThreshold with dot = px * s.ux + py * s.uy + pz * s.uz;
\* eps = 1e-12 is below the resolution of the dot product
covers(s, p) ==
    GeWithinEps(Fin(Mul(p.x, s.ux) + Mul(p.y, s.uy) + Mul(p.z, s.uz)),
                Fin(s.cosThreshold), 0)

\* rounding allowance of BandReaches, far above the rounding of a product
BAND_MARGIN == 2 * LIMB

\* The largest dot product of cap s on band i is
\* sinPhi * uy + cosPhi * sqrt(ux^2 + uz^2).  A band this test excludes has
\* no sample that s covers; the test only saves evaluating them.
BandReaches(grid, i, s) ==
    Mul(SinDeg(latCenter(grid, i)), s.uy)
      + Mul(CosDeg(latCenter(grid, i)), Sqrt(Mul(s.ux, s.ux) + Mul(s.uz, s.uz)))
      + BAND_MARGIN >= s.cosThreshold

\* the number of samples of band i that some cap of sats among near covers
coveredAmong(grid, i, sats, near) ==
    IF near = {} THEN 0
    ELSE Cardinality({j \in 0..(grid.lonSteps - 1) :
                        \E k \in near : covers(sats[k], Point(grid, i, j))})

\* the number of samples of band i that some cap of sats covers
coveredInBand(grid, i, sats) ==
    coveredAmong(grid, i, sats,
                 {k \in 1..Len(sats) : BandReaches(grid, i, sats[k])})

\* coveredFrac accumulated over the bands lo..hi
RECURSIVE coveredFracOfBands(_, _, _, _)
coveredFracOfBands(grid, sats, lo, hi) ==
    IF lo = hi THEN BandWeight(grid, lo, coveredInBand(grid, lo, sats))
    ELSE coveredFracOfBands(grid, sats, lo, (lo + hi) \div 2)
           + coveredFracOfBands(grid, sats, (lo + hi) \div 2 + 1, hi)

\* coveredFrac after the loop over the samples
coveredFrac(grid, sats) == coveredFracOfBands(grid, sats, 0, grid.latSteps - 1)

\* the two values set for percent: (percent / 100) * totalEarthAreaKm2
CoverageOfPercent(percent) ==
    [percent |-> percent,
     areaKm2 |-> MulDiv(percent, totalEarthAreaKm2, 100 * PERCENT)]

\* percent = coveredFrac * 100 and (percent / 100) * totalEarthAreaKm2
CoverageOf(frac) == CoverageOfPercent(MulDiv(frac, 100 * PERCENT, SCALE))

\* the early return: both values set to 0, the cache untouched
ZeroCoverage(cache) == [percent |-> 0, areaKm2 |-> 0, gridCache |-> cache]

\* the sample loop on the grid g returned by getLatLonGrid, and the values set
sampleGrid(g, sats) ==
    CoverageOf(coveredFrac(g.grid, sats)) @@ [gridCache |-> g.cache]

\* recomputeGlobalCoverage from the choice of the resolution on
sampleAtStep(sats, cache, step) ==
    sampleGrid(getLatLonGrid(cache, step, step), sats)

\* recomputeGlobalCoverage from the pruned caps sats on
unionOfSats(sats, cache) ==
    IF Len(sats) = 0 THEN ZeroCoverage(cache)
    ELSE sampleAtStep(sats, cache, chooseStep(sats))

\* recomputeGlobalCoverage from rawSats on
unionOfRawSats(raw, cache) ==
    IF Len(raw) = 0 THEN ZeroCoverage(cache)
    ELSE unionOfSats(dropDominated(raw), cache)

\* recomputeGlobalCoverage() in a closure that holds tleSatellites = sats and
\* satelliteCoverageData = coverageData: the values it sets and the grid
\* cache it leaves
recomputeGlobalCoverage(sats, coverageData, cache) ==
    IF Len(activeSatIds(sats)) = 0 THEN ZeroCoverage(cache)
    ELSE unionOfRawSats(rawSats(sats, coverageData), cache)

(***************************************************************************)
(* ORBITAL ELEMENTS AND PROPAGATION                                        *)
(* Long numbers: lengths in units of 10^4 km (the second limb counts       *)
(* kilometres), the mean motion n in radians per 10^3 s for the elements   *)
(* and in radians per minute for the propagator, angles in radians.        *)
(***************************************************************************)
\* a length of k kilometres, 0 <= k < LIMB
Km(k) == <<0, k, 0, 0, 0>>

\* const EARTH_RADIUS = 6378.137 (km) of the parser
ORBIT_EARTH_RADIUS == <<0, 6378, 1370, 0, 0>>

\* const MU = 398600.4418 km^3/s^2, which is 0.3986004418 (10^4 km)^3/(10^3 s)^2
MU == <<0, 3986, 44, 1800, 0>>

\* const DEG_TO_RAD = Math.PI / 180
DEG_TO_RAD == BigOver(BigPi, 180)

\* the decimal digit of weight 10^p of a Num
DigitAt(d, i) == IF i >= 1 /\ i <= Len(d) THEN d[i] ELSE 0
NumDigit(x, p) == DigitAt(x.digs, Len(x.digs) + x.e10 - p)

\* the four digits of weights 10^(3-4k) .. 10^(-4k)
NumLimb(x, k) ==
    1000 * NumDigit(x, 3 - 4 * k) + 100 * NumDigit(x, 2 - 4 * k)
        + 10 * NumDigit(x, 1 - 4 * k) + NumDigit(x, 0 - 4 * k)

\* the long number of a finite Num below 10^8 (digits under 1e-16 dropped)
NumMagnitude(x) ==
    <<NumLimb(x, 0) + LIMB * NumLimb(x, -1),
      NumLimb(x, 1), NumLimb(x, 2), NumLimb(x, 3), NumLimb(x, 4)>>
NumToBig(x) == IF x.neg THEN BigNeg(NumMagnitude(x)) ELSE NumMagnitude(x)

\* n = meanMotion * 2 * Math.PI / (24 * 60 * 60), here in radians per 10^3 s
radiansPerKilosecond(meanMotion) ==
    BigOver(BigTimes(BigMul(meanMotion, BigTwoPi), 10), 864)

\* a = Math.pow(MU / (n * n), 1/3)
semiMajorAxis_squareRoot(nk) == BigSqrt(BigDiv(BigDiv(MU, nk), nk))

semiMajorAxis(nk) == BigCbrt(BigDiv(BigDiv(MU, nk), nk))

\* period: 2 * Math.PI / n / 60, in minutes
period(nk) == BigOver(BigTimes(BigDiv(BigTwoPi, nk), 50), 3)

\* perigeeAltitude: a * (1 - eccentricity) - EARTH_RADIUS
perigeeAltitude(a, eccentricity) ==
    BigSub(BigMul(a, BigSub(BigInt(1), eccentricity)), ORBIT_EARTH_RADIUS)

\* apogeeAltitude: a * (1 + eccentricity) - EARTH_RADIUS
apogeeAltitude(a, eccentricity) ==
    BigSub(BigMul(a, BigAdd(BigInt(1), eccentricity)), ORBIT_EARTH_RADIUS)

\* the record parseTLE returns, for fields f that are finite numbers: the
\* elements it reads as long numbers and the ones it computes from n and a
elementsWith(f, nk, a) ==
    [name |-> f.name,
     inclination |-> NumToBig(f.inclination),
     raan |-> NumToBig(f.raan),
     eccentricity |-> NumToBig(f.eccentricity),
     argumentOfPerigee |-> NumToBig(f.argumentOfPerigee),
     meanAnomaly |-> NumToBig(f.meanAnomaly),
     meanMotion |-> NumToBig(f.meanMotion),
     meanMotionDerivative |-> NumToBig(f.meanMotionDerivative),
     semiMajorAxis |-> a,
     perigeeAltitude |-> perigeeAltitude(a, NumToBig(f.eccentricity)),
     apogeeAltitude |-> apogeeAltitude(a, NumToBig(f.eccentricity)),
     period |-> period(nk)]

elementsAt(f, nk) == elementsWith(f, nk, semiMajorAxis(nk))
orbitalElements(f) == elementsAt(f, radiansPerKilosecond(NumToBig(f.meanMotion)))

\* parseTLE applied to a sample of SAMPLE_TLES: what it throws, or the record
\* it returns
parseSample(sample) == parseTLE(Str(sample.line1), Str(sample.line2), sample.name)

\* the record of parseTLE with its computed fields
parsedWith(r) == IF r.ok THEN Returned(orbitalElements(r.value)) ELSE r

\* timeSinceEpoch in minutes, from date.getTime() - tle.epochDate.getTime()
\* in milliseconds
timeSinceEpoch(ms) == BigOver(BigInt(ms), 60000)

\* n = tle.meanMotion * 2 * Math.PI / (24 * 60), radians per minute
radiansPerMinute(meanMotion) == BigOver(BigMul(meanMotion, BigTwoPi), 1440)

\* dragEffect = tle.meanMotionDerivative * timeSinceEpoch / (24 * 60)
dragEffect(meanMotionDerivative, t) == BigOver(BigMul(meanMotionDerivative, t), 1440)

\* M = M0 + currentN * timeSinceEpoch
currentMeanAnomaly(tle, t) ==
    BigAdd(BigMul(tle.meanAnomaly, DEG_TO_RAD),
           BigMul(BigAdd(radiansPerMinute(tle.meanMotion),
                         dragEffect(tle.meanMotionDerivative, t)), t))

\* the loop runs at most ten times and stops once |dE| < 1e-12
KEPLER_ITERATIONS == 10
KEPLER_TOLERANCE == <<0, 0, 0, 1, 0>>

\* dE = (E - e sin E - M) / (1 - e cos E)
keplerCorrection(e, M, E) ==
    BigDiv(BigSub(BigSub(E, BigMul(e, BigSin(E))), M),
           BigSub(BigInt(1), BigMul(e, BigCos(E))))

\* the Newton-Raphson loop from its i-th pass on: E after the loop, the
\* number of updates of E and the last correction
RECURSIVE keplerFrom(_, _, _, _, _, _)
RECURSIVE keplerUpdate(_, _, _, _, _, _)
\* the loop without `if (Math.abs(dE) < 1e-12) break`
keplerFrom_noEarlyStop(e, M, E, i, dE, limit) ==
    IF i >= limit THEN [E |-> E, updates |-> i, dE |-> dE]
    ELSE keplerUpdate(e, M, E, i, keplerCorrection(e, M, E), limit)

keplerFrom(e, M, E, i, dE, limit) ==
    IF i > 0 /\ BigLess(BigAbs(dE), KEPLER_TOLERANCE) THEN [E |-> E, updates |-> i, dE |-> dE]
    ELSE IF i >= limit THEN [E |-> E, updates |-> i, dE |-> dE]
    ELSE keplerUpdate(e, M, E, i, keplerCorrection(e, M, E), limit)

keplerUpdate(e, M, E, i, dE, limit) == keplerFrom(e, M, BigSub(E, dE), i + 1, dE, limit)

\* let E = M; for (let i = 0; i < 10; i++) { ... }
solveKepler_singleStep(e, M) == keplerFrom(e, M, M, 0, BigInt(0), 1)

solveKepler(e, M) == keplerFrom(e, M, M, 0, BigInt(0), KEPLER_ITERATIONS)

\* nu = 2 * Math.atan2(sqrt(1 + e) sin(E / 2), sqrt(1 - e) cos(E / 2))
trueAnomaly(e, E) ==
    BigTimes(BigAtan2(BigMul(BigSqrt(BigAdd(BigInt(1), e)), BigSin(BigOver(E, 2))),
                      BigMul(BigSqrt(BigSub(BigInt(1), e)), BigCos(BigOver(E, 2)))), 2)

\* r = tle.semiMajorAxis * (1 - tle.eccentricity * Math.cos(E))
orbitRadius(tle, E) ==
    BigMul(tle.semiMajorAxis, BigSub(BigInt(1), BigMul(tle.eccentricity, BigCos(E))))

\* Math.sqrt(MU / p) with p = a (1 - e^2), in units of 10 km/s
orbitSpeed(tle) ==
    BigSqrt(BigDiv(MU, BigMul(tle.semiMajorAxis,
                              BigSub(BigInt(1), BigMul(tle.eccentricity, tle.eccentricity)))))

\* the coefficients of x_orb and y_orb in x, y and z
rotationOf_sineForCosine(cosRaan, sinRaan, cosArgp, sinArgp, cosInc, sinInc) ==
    [xx |-> BigSub(BigMul(cosRaan, cosArgp), BigMul(BigMul(sinRaan, sinArgp), cosInc)),
     xy |-> BigSub(BigNeg(BigMul(cosRaan, sinArgp)), BigMul(BigMul(sinRaan, cosArgp), cosInc)),
     yx |-> BigAdd(BigMul(sinRaan, cosArgp), BigMul(BigMul(cosRaan, sinArgp), cosInc)),
     yy |-> BigAdd(BigNeg(BigMul(sinRaan, sinArgp)), BigMul(BigMul(cosRaan, cosArgp), cosInc)),
     zx |-> BigMul(sinArgp, cosInc),
     zy |-> BigMul(cosArgp, cosInc)]

rotationOf(cosRaan, sinRaan, cosArgp, sinArgp, cosInc, sinInc) ==
    [xx |-> BigSub(BigMul(cosRaan, cosArgp), BigMul(BigMul(sinRaan, sinArgp), cosInc)),
     xy |-> BigSub(BigNeg(BigMul(cosRaan, sinArgp)), BigMul(BigMul(sinRaan, cosArgp), cosInc)),
     yx |-> BigAdd(BigMul(sinRaan, cosArgp), BigMul(BigMul(cosRaan, sinArgp), cosInc)),
     yy |-> BigAdd(BigNeg(BigMul(sinRaan, sinArgp)), BigMul(BigMul(cosRaan, cosArgp), cosInc)),
     zx |-> BigMul(sinArgp, sinInc),
     zy |-> BigMul(cosArgp, sinInc)]

rotation(raan, argp, inc) ==
    rotationOf(BigCos(raan), BigSin(raan), BigCos(argp), BigSin(argp),
               BigCos(inc), BigSin(inc))

\* a vector of the orbital plane in ECI coordinates
toECI(rot, u, v) ==
    [x |-> BigAdd(BigMul(rot.xx, u), BigMul(rot.xy, v)),
     y |-> BigAdd(BigMul(rot.yx, u), BigMul(rot.yy, v)),
     z |-> BigAdd(BigMul(rot.zx, u), BigMul(rot.zy, v))]

\* Math.sqrt(x*x + y*y + z*z)
eciNorm(p) == BigSqrt(BigAdd(BigAdd(BigMul(p.x, p.x), BigMul(p.y, p.y)), BigMul(p.z, p.z)))

\* the returned object
positionRecord(pos, vel, dist) ==
    [position |-> pos, velocity |-> vel,
     altitude |-> BigSub(dist, ORBIT_EARTH_RADIUS), distance |-> dist]

positionOf(pos, vel) == positionRecord(pos, vel, eciNorm(pos))

\* position and velocity in the orbital plane, turned into ECI coordinates
positionIn(rot, ecc, r, speed, cosNu, sinNu) ==
    positionOf(toECI(rot, BigMul(r, cosNu), BigMul(r, sinNu)),
               toECI(rot, BigNeg(BigMul(speed, sinNu)),
                          BigMul(speed, BigAdd(ecc, cosNu))))

positionAtAnomaly(tle, E, nu) ==
    positionIn(rotation(BigMul(tle.raan, DEG_TO_RAD),
                        BigMul(tle.argumentOfPerigee, DEG_TO_RAD),
                        BigMul(tle.inclination, DEG_TO_RAD)),
               tle.eccentricity, orbitRadius(tle, E), orbitSpeed(tle),
               BigCos(nu), BigSin(nu))

positionAt(tle, E) == positionAtAnomaly(tle, E, trueAnomaly(tle.eccentricity, E))

\* the eccentric anomaly the loop ends on at timeSinceEpoch t
anomalyAt(tle, t) == solveKepler(tle.eccentricity, currentMeanAnomaly(tle, t)).E

\* calculateSatellitePosition(tle, date), date given by the milliseconds
\* since the epoch
calculateSatellitePosition(tle, ms) == positionAt(tle, anomalyAt(tle, timeSinceEpoch(ms)))

(***************************************************************************)
(* APP STATE                                                               *)
(***************************************************************************)
EmptyMap == [k \in {} |-> 0]

AppInit ==
    /\ tleSatellites = <<>>
    /\ satelliteCoverageData = EmptyMap
    /\ minElevationAngle = 0
    /\ globalCoverage = [percent |-> 0, areaKm2 |-> 0]
    /\ gridCache = EmptyMap
    /\ rendered = [tleSatellites |-> <<>>, satelliteCoverageData |-> EmptyMap]
    /\ timers = <<>>
    /\ clock = 0

\* what the closures of a render hold
closureOf(sats, coverageData) ==
    [tleSatellites |-> sats, satelliteCoverageData |-> coverageData]

\* a slip that adds a satellite with its coverage switched off
newSatellite_hidden(now, name) ==
    [id |-> now, rawName |-> name,
     showOrbit |-> TRUE, showTrail |-> TRUE, showCoverage |-> FALSE]

\* newSatellite of addTLESatellite at Date.now() = now; tleData, a function
\* of the raw lines, and the random colour are left out
newSatellite(now, name) ==
    [id |-> now, rawName |-> name,
     showOrbit |-> TRUE, showTrail |-> TRUE, showCoverage |-> TRUE]

\* prev.filter(sat => sat.id !== id)
withoutId(sats, id) == SelectSeq(sats, LAMBDA sat : sat.id # id)

\* prev.map(sat => ({ ...sat, [property]: value }))
withProperty(sats, property, value) ==
    [k \in 1..Len(sats) |->
        [f \in DOMAIN sats[k] |-> IF f = property THEN value ELSE sats[k][f]]]

\* a slip that leaves out the spread of prev: { [satelliteId]: coverageData }
merged_withoutPrev(prev, satelliteId, coverageData) ==
    [id \in {satelliteId} |-> coverageData]

\* { ...prev, [satelliteId]: coverageData }
merged(prev, satelliteId, coverageData) ==
    [id \in DOMAIN prev \cup {satelliteId} |->
        IF id = satelliteId THEN coverageData ELSE prev[id]]

\* setTimeout(recomputeGlobalCoverage, 0) in a handler: the callback is the
\* function of the render that created the handler, with that render's
\* tleSatellites and satelliteCoverageData
scheduled(queue) == Append(queue, rendered)

(***************************************************************************)
(* parseTLE ON EDITED SAMPLE LINES                                         *)
(***************************************************************************)
SampleKeys == {"ISS", "HUBBLE", "MOLNIYA"}

\* characters an edit may put into a line
EditChars == {"0", "1", "2", "7", "-", ".", "e", "A", " "}

\* s with the character at 0-based position p replaced by c
ReplaceChar(s, p, c) == [s EXCEPT ![p + 1] = c]

\* a line with at most one character replaced, cut short, or left out
EditedLines(l) ==
    {Str(l), Undefined, Str(<<>>)}
    \cup {Str(ReplaceChar(l, p, c)) : p \in 0..(Len(l) - 1), c \in EditChars}
    \cup {Str(SubSeq(l, 1, n)) : n \in {1, TLE_MIN_LENGTH - 1}}

\* a few variants of the other line
FewLines(l) ==
    {Str(l), Undefined, Str(SubSeq(l, 1, TLE_MIN_LENGTH - 1)),
     Str(ReplaceChar(l, 0, "3")), Str(l \o <<" ">>)}

ParseInit ==
    /\ AppInit
    /\ fn = "parseTLE"
    /\ result = NotCalled
    /\ \E k \in SampleKeys :
         LET t == SAMPLE_TLES[k]
         IN  \/ \E a \in EditedLines(t.line1), b \in FewLines(t.line2) :
                  args = [name |-> t.name, line1 |-> a, line2 |-> b]
             \/ \E a \in FewLines(t.line1), b \in EditedLines(t.line2) :
                  args = [name |-> t.name, line1 |-> a, line2 |-> b]

CallParseTLE ==
    /\ fn = "parseTLE"
    /\ ~result.done
    /\ result' = parseTLE(args.line1, args.line2, args.name)
    /\ UNCHANGED <<fn, args>>
    /\ UNCHANGED appVars

ParseNext == CallParseTLE

ParseSpec == ParseInit /\ [][ParseNext]_vars

\* the arguments violate a precondition of parseTLE
lineMissingOrShort(l) == ~l.def \/ Len(l.s) < TLE_MIN_LENGTH
PreconditionViolated ==
    \/ lineMissingOrShort(args.line1) \/ lineMissingOrShort(args.line2)
    \/ args.line1.s[1] # "1" \/ args.line2.s[1] # "2"

FormatFailure == ~result.ok /\ result.error \in {ERR_LENGTH, ERR_START}

\* C1: parseTLE fails, returning no record, whenever a line is missing or
\* shorter than 69 characters or does not start with '1' resp. '2'; when the
\* preconditions hold it does not fail for that reason.
C1_PreconditionsChecked ==
    (fn = "parseTLE" /\ result.done) =>
        /\ PreconditionViolated => FormatFailure
        /\ ~PreconditionViolated => ~FormatFailure

C1_Witness_Rejected ==
    /\ fn = "parseTLE" /\ result.done
    /\ args.line1.def /\ Len(args.line1.s) >= TLE_MIN_LENGTH
    /\ args.line2.def /\ Len(args.line2.s) = TLE_MIN_LENGTH - 1
    /\ ~result.ok

NumericFields ==
    {"catalogNumber", "epochYear", "epochDay", "meanMotionDerivative", "bstar",
     "inclination", "raan", "eccentricity", "argumentOfPerigee",
     "meanAnomaly", "meanMotion"}

\* C2: parseTLE never returns a record in which a fixed-column numeric field
\* is not a number (it fails with a FormatError instead).
C2_NoNaNFieldReturned ==
    (fn = "parseTLE" /\ result.done /\ result.ok) =>
        \A f \in NumericFields : ~isNaN(result.value[f])

\* C3: every record parseTLE returns has 0 <= eccentricity < 1 and
\* meanMotion > 0.
C3_ElementsInRange ==
    (fn = "parseTLE" /\ result.done /\ result.ok) =>
        /\ GeZero(result.value.eccentricity)
        /\ LtOne(result.value.eccentricity)
        /\ GtZero(result.value.meanMotion)

(***************************************************************************)
(* validateTLEChecksum ON SAMPLE LINES WITH ONE DIGIT REPLACED             *)
(***************************************************************************)
SampleLines ==
    {ISS_LINE1, ISS_LINE2, HUBBLE_LINE1, HUBBLE_LINE2,
     MOLNIYA_LINE1, MOLNIYA_LINE2}

\* characters that may stand in the checksum column, besides the digits
NonDigitChars == {" ", "-", "+", ".", "A"}

\* a sample line with any character in the checksum column, cut short of
\* the checksum column, or with trailing characters
ChecksumLines ==
    {ReplaceChar(l, CHECKSUM_POSITION, DigitChars[c]) :
        l \in SampleLines, c \in 1..10}
    \cup {ReplaceChar(l, CHECKSUM_POSITION, c) :
            l \in SampleLines, c \in NonDigitChars}
    \cup {SubSeq(l, 1, n) : l \in SampleLines, n \in {0, CHECKSUM_POSITION}}
    \cup {l \o <<"7", " ">> : l \in SampleLines}

ChecksumInit ==
    /\ AppInit
    /\ result = NotCalled
    /\ \/ /\ fn = "validateTLEChecksum"
          /\ \E l \in ChecksumLines :
               args = [line |-> l, flipped |-> FALSE, acceptedBefore |-> FALSE]
       \/ /\ fn = "testChecksumValidation"
          /\ args = <<>>

\* testChecksumValidation(): line1Valid && line2Valid for SAMPLE_TLES.ISS
testChecksumValidation ==
    /\ validateTLEChecksum(SAMPLE_TLES.ISS.line1)
    /\ validateTLEChecksum(SAMPLE_TLES.ISS.line2)

CallTestChecksumValidation ==
    /\ fn = "testChecksumValidation"
    /\ ~result.done
    /\ result' = Returned(testChecksumValidation)
    /\ UNCHANGED <<fn, args>>
    /\ UNCHANGED appVars

CallValidateTLEChecksum ==
    /\ fn = "validateTLEChecksum"
    /\ ~result.done
    /\ result' = Returned(validateTLEChecksum(args.line))
    /\ UNCHANGED <<fn, args>>
    /\ UNCHANGED appVars

\* replace the digit at position p by another digit, after a first call
FlipDigit ==
    /\ fn = "validateTLEChecksum"
    /\ result.done
    /\ ~args.flipped
    /\ \E p \in 0..(CHECKSUM_POSITION - 1), c \in 1..10 :
         /\ isDigit(charAt(args.line, p))
         /\ DigitChars[c] # charAt(args.line, p)
         /\ args' = [line |-> ReplaceChar(args.line, p, DigitChars[c]),
                     flipped |-> TRUE, acceptedBefore |-> result.value]
    /\ result' = NotCalled
    /\ UNCHANGED fn
    /\ UNCHANGED appVars

ChecksumNext ==
    CallValidateTLEChecksum \/ FlipDigit \/ CallTestChecksumValidation

ChecksumSpec == ChecksumInit /\ [][ChecksumNext]_vars

\* C10: for a line validateTLEChecksum accepts, replacing one digit in
\* positions 0..67 by a different digit makes validateTLEChecksum return false.
C10_SingleDigitFlipRejected ==
    (fn = "validateTLEChecksum" /\ result.done
        /\ args.flipped /\ args.acceptedBefore) => ~result.value

C10_Witness_FlipAtLastPosition ==
    /\ fn = "validateTLEChecksum" /\ result.done
    /\ args.flipped /\ args.acceptedBefore
    /\ args.line[CHECKSUM_POSITION] # HUBBLE_LINE1[CHECKSUM_POSITION]
    /\ SubSeq(args.line, 1, CHECKSUM_POSITION - 1)
         = SubSeq(HUBBLE_LINE1, 1, CHECKSUM_POSITION - 1)
    /\ ~result.value

\* the number of positions 0 .. CHECKSUM_POSITION - 1 of line that hold c
Occurrences(line, c) ==
    Cardinality({p \in 1..Min(Len(line), CHECKSUM_POSITION) : line[p] = c})

\* the digits of positions 0..67 added up, plus 1 for every '-' there
RECURSIVE DigitTotal(_, _)
DigitTotal(line, d) ==
    IF d = 0 THEN Occurrences(line, "-")
    ELSE d * Occurrences(line, DigitChars[d + 1]) + DigitTotal(line, d - 1)

ChecksumReturned == fn = "validateTLEChecksum" /\ result.done

\* C11: validateTLEChecksum(line) returns true exactly when the line has
\* at least 69 characters and (the digits of positions 0..67 added up, plus
\* 1 for every '-' there) mod 10 is the digit at position 68; it returns
\* false for shorter lines and when position 68 holds no digit.
C11_ChecksumContract ==
    ChecksumReturned =>
        /\ result.ok
        /\ result.value =
             (/\ Len(args.line) >= TLE_MIN_LENGTH
              /\ isDigit(args.line[CHECKSUM_POSITION + 1])
              /\ DigitTotal(args.line, 9) % 10
                    = DigitVal(args.line[CHECKSUM_POSITION + 1]))

\* a line with '-' characters (and one digit changed) has been accepted:
\* the '-' characters are part of its sum
C11_Witness_DashCounted ==
    /\ ChecksumReturned
    /\ args.flipped
    /\ Occurrences(args.line, "-") = 2
    /\ Len(args.line) = TLE_MIN_LENGTH
    /\ result.value

\* C12: the sample TLE the test suite checks (SAMPLE_TLES.ISS) carries
\* valid checksums: validateTLEChecksum returns true for its line 1 and for
\* its line 2, so testChecksumValidation returns true.
C12_SampleChecksumsValid ==
    (fn = "testChecksumValidation" /\ result.done) =>
        /\ validateTLEChecksum(ISS_LINE1)
        /\ validateTLEChecksum(ISS_LINE2)
        /\ result.value

(***************************************************************************)
(* COVERAGE HARNESS: calculateCoverageGeometry on satellite positions of   *)
(* the scene, below, on and above the surface, under every position of the *)
(* elevation slider.                                                       *)
(***************************************************************************)
\* unit vectors with exact components
UnitDirections ==
    { <<0, 100, 0>>, <<60, 80, 0>>, <<36, 48, 80>>, <<0, -60, -80>> }

\* distances from the centre in 1/1000 of the scene unit: the centre, inside
\* the Earth, on the surface (2000), and 3 km to 8000 km above it
SceneDistances == { 0, 1000, 1900, 2000, 2001, 2010, 2125, 3000, 4500 }

\* slider of the control panel: min 0, max 90, step 1
MIN_ELEVATION == 0
MAX_ELEVATION == 90
SliderValues == MIN_ELEVATION..MAX_ELEVATION

ScenePosition(dir, r) ==
    Vec(dir[1] * r * (SCALE \div 10^5), dir[2] * r * (SCALE \div 10^5),
        dir[3] * r * (SCALE \div 10^5))

ScenePositions ==
    { ScenePosition(dir, r) : dir \in UnitDirections, r \in SceneDistances }

CoverageInit ==
    /\ AppInit
    /\ fn = "calculateCoverageGeometry"
    /\ result = NotCalled
    /\ \E p \in ScenePositions, e \in SliderValues :
         args = [satellitePosition |-> p, minElevationAngle |-> e]

\* a frame: the coverage of the current position is computed
CallCalculateCoverageGeometry ==
    /\ fn = "calculateCoverageGeometry"
    /\ ~result.done
    /\ result' = Returned(coverageUpdate(args.satellitePosition,
                                         args.minElevationAngle))
    /\ UNCHANGED <<fn, args>>
    /\ UNCHANGED appVars

\* one step of the slider to either side, or a jump to one of its ends
SliderMoves(e) ==
    ({e - 1, e + 1, MIN_ELEVATION, MAX_ELEVATION} \cap SliderValues) \ {e}

\* the slider moves and the next frame computes the coverage again
ChangeMinElevation ==
    /\ fn = "calculateCoverageGeometry"
    /\ result.done
    /\ \E e \in SliderMoves(args.minElevationAngle) :
         /\ args' = [args EXCEPT !.minElevationAngle = e]
         /\ result' = Returned(coverageUpdate(args.satellitePosition, e))
    /\ UNCHANGED fn
    /\ UNCHANGED appVars

CoverageNext == CallCalculateCoverageGeometry \/ ChangeMinElevation

CoverageSpec == CoverageInit /\ [][CoverageNext]_vars

\* the satellite is at distance d <= R from the centre, in scene units
AtOrBelowSurface(p) == satDistance(p) <= EARTH_RADIUS

\* the satellite is above the surface
AboveSurface(p) == satDistance(p) > EARTH_RADIUS

CoverageReturned == fn = "calculateCoverageGeometry" /\ result.done

\* C8: a satellite at distance d <= R from the centre, d = R included, gets
\* a degenerate cap (centralAngle = 0, coverageAreaKm2 = 0,
\* coveragePercentage = 0) and the computation returns without an exception.
C8_DegenerateAtOrBelowSurface ==
    (CoverageReturned /\ AtOrBelowSurface(args.satellitePosition)) =>
        /\ result.ok
        /\ result.value.centralAngle = Fin(0)
        /\ result.value.coverageAreaKm2 = 0
        /\ result.value.coveragePercentage = 0

\* a satellite exactly on the surface, off the coordinate axes, with the
\* slider away from 0, has been given its degenerate cap
C8_Witness_ExactlyAtR ==
    /\ CoverageReturned
    /\ satDistance(args.satellitePosition) = EARTH_RADIUS
    /\ args.satellitePosition.z # 0
    /\ args.minElevationAngle > 0
    /\ result.ok
    /\ result.value.centralAngle = Fin(0)

\* C9: for a fixed satellite above the surface, raising the minimum
\* elevation within [0, 90] strictly lowers the central angle psi until it
\* is 0, and psi is 0 at 90 degrees.
C9_PsiStrictlyDecreasing ==
    [][(/\ CoverageReturned
        /\ CoverageReturned'
        /\ AboveSurface(args.satellitePosition)
        /\ args'.satellitePosition = args.satellitePosition)
       => /\ (args.minElevationAngle < args'.minElevationAngle
                => /\ result'.value.centralAngle.q < result.value.centralAngle.q
                   /\ result'.value.centralAngle.f = result.value.centralAngle.f)
          /\ (args'.minElevationAngle = MAX_ELEVATION
                => result'.value.centralAngle = Fin(0))]_vars

\* a satellite above the surface whose slider stands at 90 after a move,
\* with no coverage left
C9_Witness_SliderAtNinety ==
    /\ CoverageReturned
    /\ AboveSurface(args.satellitePosition)
    /\ args.minElevationAngle = MAX_ELEVATION
    /\ result.value.centralAngle = Fin(0)
    /\ result.value.satelliteAltitudeKm > 0

(***************************************************************************)
(* UNION HARNESS: recomputeGlobalCoverage in the closure of a render with  *)
(* up to two satellites, whose coverage data is what their frames stored.  *)
(***************************************************************************)
\* The coverage data a frame has stored for a satellite at minimum elevation
\* 0, by name:
\*   LEO_N   in low orbit over the pole of the scene (altitude 399 km)
\*   LOW_N   lower on the same axis (159 km)
\*   HIGH_N  high on the same axis (3189 km)
\*   LEO_T   in low orbit 36.87 degrees away, its cap overlapping LEO_N's
\*   SKIM_N  3 km above the pole, with a cap of less than 3 degrees
\*   HAIR_N  a hair above LEO_N: its central angle is 5e-13 rad larger
\*   SURFACE on the surface: the degenerate cap
\*   NAN_COVERAGE  at a NaN position (parseTLE returned a NaN element): every
\*           number of calculateCoverageGeometry is NaN, the direction (0, 1, 0)
\* NO_COVERAGE names a satellite none of whose frames has stored anything.
StoredDirection(name) ==
    IF name = "LEO_T" THEN <<60, 80, 0>> ELSE <<0, 100, 0>>

StoredDistance(name) ==
    CASE name \in {"LEO_N", "LEO_T", "HAIR_N"} -> 2125
      [] name = "LOW_N" -> 2050
      [] name = "HIGH_N" -> 3000
      [] name = "SKIM_N" -> 2001
      [] name \in {"SURFACE", "NAN_COVERAGE"} -> 2000

\* what calculateCoverageGeometry returns for a NaN position, with the
\* direction useFrame adds
NaNCoverage ==
    [height |-> NotANumber, radius |-> NotANumber, angle |-> NotANumber,
     coverageRadius |-> NotANumber, coveragePercentage |-> NotANumber,
     coverageAreaKm2 |-> NotANumber, centralAngle |-> NotANumber,
     satelliteAltitudeKm |-> NotANumber, direction |-> Vec(0, SCALE, 0)]

\* the stored coverage, given the coverage update cov of the position named
StoredAs(name, cov) ==
    CASE name = "HAIR_N" -> [cov EXCEPT !.centralAngle = FinPlus(@.q, 5)]
      [] name = "NAN_COVERAGE" -> NaNCoverage
      [] OTHER -> cov

\* what a frame stores for the position named at the minimum elevation of
\* its render
StoredCoverageAt(name, elevation) ==
    StoredAs(name, coverageUpdate(ScenePosition(StoredDirection(name),
                                                StoredDistance(name)), elevation))

StoredCoverage(name) == StoredCoverageAt(name, 0)

ProperCaps == {"LEO_N", "LOW_N", "HIGH_N", "LEO_T"}
EmptyCaps == {"SURFACE", "NAN_COVERAGE", "NO_COVERAGE"}

Shown(c) == [showCoverage |-> TRUE, coverage |-> c]
Hidden(c) == [showCoverage |-> FALSE, coverage |-> c]

\* the constellations: each satellite with its flag and its stored coverage
UnionScenarios ==
    {<<>>}
    \cup {<<Shown(c)>> : c \in ProperCaps \cup EmptyCaps \cup {"SKIM_N"}}
    \cup {<<Hidden(c)>> : c \in ProperCaps \cup EmptyCaps \cup {"SKIM_N"}}
    \cup {<<Shown(c), d>> :
            c \in ProperCaps,
            d \in {Shown(x) : x \in ProperCaps \cup EmptyCaps \cup {"HAIR_N"}}
                    \cup {Hidden("LEO_T")}}
    \cup {<<c, d>> :
            c \in {Hidden("LEO_N")} \cup {Shown(x) : x \in EmptyCaps},
            d \in {Hidden("LEO_T"), Shown("LEO_T")} \cup {Shown(x) : x \in EmptyCaps}}

\* tleSatellites of a constellation
SatellitesOf(sc) ==
    [k \in 1..Len(sc) |-> [id |-> k, showCoverage |-> sc[k].showCoverage]]

\* satelliteCoverageData of a constellation
CoverageDataOf(sc) ==
    [id \in {k \in 1..Len(sc) : sc[k].coverage # "NO_COVERAGE"} |->
        StoredCoverage(sc[id].coverage)]

\* the union coverage left on display by an earlier constellation
STALE_COVERAGE == CoverageOf(SCALE \div 8)

UnionInit ==
    /\ \E sc \in UnionScenarios :
         /\ tleSatellites = SatellitesOf(sc)
         /\ satelliteCoverageData = CoverageDataOf(sc)
         /\ rendered = [tleSatellites |-> SatellitesOf(sc),
                        satelliteCoverageData |-> CoverageDataOf(sc)]
    /\ minElevationAngle = 0
    /\ globalCoverage = STALE_COVERAGE
    /\ gridCache = EmptyMap
    /\ timers = <<>>
    /\ clock = 0
    /\ fn = "recomputeGlobalCoverage"
    /\ args = <<>>
    /\ result = NotCalled

\* the timer callback runs in the closure of the last render
CallRecomputeGlobalCoverage ==
    /\ fn = "recomputeGlobalCoverage"
    /\ ~result.done
    /\ \E r \in {recomputeGlobalCoverage(rendered.tleSatellites,
                                         rendered.satelliteCoverageData,
                                         gridCache)} :
         /\ globalCoverage' = [percent |-> r.percent, areaKm2 |-> r.areaKm2]
         /\ gridCache' = r.gridCache
    /\ result' = Returned(Undefined)
    /\ UNCHANGED <<fn, args>>
    /\ UNCHANGED <<tleSatellites, satelliteCoverageData, minElevationAngle,
                   rendered, timers, clock>>

UnionNext == CallRecomputeGlobalCoverage

UnionSpec == UnionInit /\ [][UnionNext]_vars

UnionReturned == fn = "recomputeGlobalCoverage" /\ result.done

\* x > 0 for a finite number
Positive(x) == x.kind = "fin" /\ (x.q > 0 \/ (x.q = 0 /\ x.f > 0))

\* the ids of the satellites that are active and have a cap with a finite
\* central angle greater than 0, in the order of tleSatellites
RECURSIVE CapIdsFrom(_)
CapIdsFrom(k) ==
    IF k > Len(tleSatellites) THEN <<>>
    ELSE (IF /\ tleSatellites[k].showCoverage
             /\ tleSatellites[k].id \in DOMAIN satelliteCoverageData
             /\ Positive(satelliteCoverageData[tleSatellites[k].id].centralAngle)
          THEN <<tleSatellites[k].id>> ELSE <<>>) \o CapIdsFrom(k + 1)

CapIds == CapIdsFrom(1)

\* C4: when no satellite is active, or no active satellite has a cap with a
\* finite central angle greater than 0, recomputeGlobalCoverage returns
\* normally and leaves percent = 0 and areaKm2 = 0.
C4_ZeroWithoutCaps ==
    (UnionReturned /\ CapIds = <<>>) =>
        /\ result.ok
        /\ globalCoverage = [percent |-> 0, areaKm2 |-> 0]

\* two active satellites, one with a NaN cap and one with the degenerate cap:
\* the stale coverage has been replaced by 0/0
C4_Witness_ActiveButNoCap ==
    /\ UnionReturned
    /\ Len(tleSatellites) = 2
    /\ \A k \in 1..2 : tleSatellites[k].showCoverage
    /\ DOMAIN satelliteCoverageData = {1, 2}
    /\ satelliteCoverageData[1].centralAngle = NotANumber
    /\ satelliteCoverageData[2].centralAngle = Fin(0)
    /\ globalCoverage = [percent |-> 0, areaKm2 |-> 0]

\* the single-cap coverage percent of the caps of ids: the largest, the sum
RECURSIVE MaxSinglePercent(_)
MaxSinglePercent(ids) ==
    IF ids = <<>> THEN 0
    ELSE Max(satelliteCoverageData[Head(ids)].coveragePercentage,
             MaxSinglePercent(Tail(ids)))

RECURSIVE SumSinglePercent(_)
SumSinglePercent(ids) ==
    IF ids = <<>> THEN 0
    ELSE satelliteCoverageData[Head(ids)].coveragePercentage
           + SumSinglePercent(Tail(ids))

\* C5: the union percent of the active caps is at least the largest
\* single-cap percent and at most the sum of the single-cap percents.
C5_UnionBetweenMaxAndSum ==
    (UnionReturned /\ CapIds # <<>>) =>
        /\ globalCoverage.percent >= MaxSinglePercent(CapIds)
        /\ globalCoverage.percent <= SumSinglePercent(CapIds)

\* the grid on which pruned and original caps are compared: the one the
\* surviving caps select, or the one of the original caps when none survives
ComparisonGrid(raw) ==
    IF dropDominated(raw) # <<>>
    THEN NewGrid(chooseStep(dropDominated(raw)), chooseStep(dropDominated(raw)))
    ELSE NewGrid(chooseStep(raw), chooseStep(raw))

\* C6: pruning does not change the result: the samples the surviving caps
\* cover are the samples the original caps cover (the survivors are among
\* the original caps, so equal covered fractions mean equal sample sets),
\* and the percent set is that of the original caps.
C6_PruningKeepsResult ==
    (UnionReturned /\ CapIds # <<>>) =>
        \A raw \in {rawSats(tleSatellites, satelliteCoverageData)} :
            Len(dropDominated(raw)) < Len(raw) =>
                \A all \in {coveredFrac(ComparisonGrid(raw), raw)} :
                    /\ coveredFrac(ComparisonGrid(raw), dropDominated(raw)) = all
                    /\ globalCoverage.percent = CoverageOf(all).percent

\* a < b for finite numbers
LessThan(a, b) == a.q < b.q \/ (a.q = b.q /\ a.f < b.f)

\* caps a and b of the coverage data have the same axis
SameAxis(a, b) ==
    satelliteCoverageData[a].direction = satelliteCoverageData[b].direction

\* tleSatellites without the satellite id
Without(id) == SelectSeq(tleSatellites, LAMBDA sat : sat.id # id)

\* the position of id among the caps of rawSats
RawIndex(id) == CHOOSE k \in 1..Len(CapIds) : CapIds[k] = id

\* C7: when caps A and B have the same axis and psi_A < psi_B, pruning
\* discards A and the result is the one computed without A.
C7_SmallerCoaxialCapIrrelevant ==
    UnionReturned =>
        \A a, b \in {CapIds[k] : k \in 1..Len(CapIds)} :
            (/\ a # b
             /\ SameAxis(a, b)
             /\ LessThan(satelliteCoverageData[a].centralAngle,
                         satelliteCoverageData[b].centralAngle))
            => /\ contained(rawSats(tleSatellites, satelliteCoverageData),
                            RawIndex(a))
               /\ \A r \in {recomputeGlobalCoverage(Without(a),
                                satelliteCoverageData, EmptyMap)} :
                      globalCoverage = [percent |-> r.percent,
                                        areaKm2 |-> r.areaKm2]

(***************************************************************************)
(* ORBIT HARNESS: parseTLE on the samples, the Kepler loop and             *)
(* calculateSatellitePosition                                              *)
(***************************************************************************)
\* eccentricities 0 <= e < 0.9
Eccentricities == {<<0, d, 0, 0, 0>> : d \in {0, 1000, 3000, 5000, 7000, 8000, 8900, 8999}}

\* mean anomalies 0 <= M < 2 pi
MeanAnomalies ==
    {m \in {<<q, f, 0, 0, 0>> : q \in 0..6, f \in {0, 100, 2800, 5000}} :
        BigLess(m, BigTwoPi)}

\* date - epochDate in milliseconds: at the epoch, minutes, half a
\* revolution, a day, ten days and twenty-three days later, an hour before
EpochOffsets ==
    {0, 60000, 600000, 2790000, 5578000, 86400000, 864000000, 2000000000, -3600000}

OrbitInit ==
    /\ AppInit
    /\ result = NotCalled
    /\ \/ /\ fn = "testTLEParsing"
          /\ \E k \in SampleKeys : args = [sample |-> k, ms |-> 0, tleData |-> NotCalled]
       \/ /\ fn = "testPositionCalculation"
          /\ \E k \in SampleKeys, ms \in EpochOffsets :
               args = [sample |-> k, ms |-> ms, tleData |-> NotCalled]
       \/ /\ fn = "solveKepler"
          /\ \E e \in Eccentricities, M \in MeanAnomalies : args = [e |-> e, M |-> M]

\* const tleData = parseTLE(sample.line1, sample.line2, sample.name), the
\* first step of testTLEParsing (which returns it) and of
\* testPositionCalculation
CallParseSample ==
    /\ fn \in {"testTLEParsing", "testPositionCalculation"}
    /\ ~args.tleData.done
    /\ \E r \in {parsedWith(parseSample(SAMPLE_TLES[args.sample]))} :
         /\ args' = [args EXCEPT !.tleData = r]
         /\ result' = IF fn = "testTLEParsing" THEN r ELSE result
    /\ UNCHANGED fn
    /\ UNCHANGED appVars

CallSolveKepler ==
    /\ fn = "solveKepler"
    /\ ~result.done
    /\ result' = Returned(solveKepler(args.e, args.M))
    /\ UNCHANGED <<fn, args>>
    /\ UNCHANGED appVars

\* const position = calculateSatellitePosition(tleData, date)
CallCalculateSatellitePosition ==
    /\ fn = "testPositionCalculation"
    /\ args.tleData.done
    /\ args.tleData.ok
    /\ ~result.done
    /\ result' = Returned(calculateSatellitePosition(args.tleData.value, args.ms))
    /\ UNCHANGED <<fn, args>>
    /\ UNCHANGED appVars

OrbitNext == CallParseSample \/ CallSolveKepler \/ CallCalculateSatellitePosition

OrbitSpec == OrbitInit /\ [][OrbitNext]_vars

\* lo <= x <= hi
BigWithin(x, lo, hi) == BigLeq(lo, x) /\ BigLeq(x, hi)

IssParsed == fn = "testTLEParsing" /\ args.sample = "ISS" /\ result.done

\* the elements of the ISS fixture, with the apogee altitude at most
\* apogeeMax kilometres
IssElements(apogeeMax) ==
    /\ result.ok
    /\ result.value.inclination = <<51, 6461, 0, 0, 0>>
    /\ BigLeq(BigAbs(BigSub(result.value.period, <<92, 9000, 0, 0, 0>>)),
              <<0, 4645, 0, 0, 0>>)
    /\ BigWithin(result.value.perigeeAltitude, Km(400), Km(420))
    /\ BigWithin(result.value.apogeeAltitude, Km(400), Km(apogeeMax))

\* C13 as stated: parsing the ISS fixture yields inclination 51.6461 degrees,
\* a period within 0.5% of 92.9 minutes, and perigee and apogee altitudes
\* both within [400, 420] km.
C13_IssElementsAsStated == IssParsed => IssElements(420)

\* C13, amended: parsing the ISS fixture yields inclination 51.6461 degrees,
\* a period within 0.5% of 92.9 minutes, a perigee altitude within
\* [400, 420] km and an apogee altitude within [400, 421] km.
C13_IssElements == IssParsed => IssElements(421)

\* the ISS fixture is parsed and its apogee lies above 420 km
C13_Witness_ApogeeAbove420 ==
    /\ IssParsed
    /\ result.ok
    /\ BigLess(Km(420), result.value.apogeeAltitude)

\* E - e sin E - M
keplerResidual(e, M, E) == BigSub(BigSub(E, BigMul(e, BigSin(E))), M)

\* C15: for 0 <= e < 0.9 and M in [0, 2 pi) the eccentric anomaly E produced
\* by the Newton-Raphson loop satisfies |E - e sin(E) - M| < 1e-9.
C15_KeplerResidualSmall ==
    (fn = "solveKepler" /\ result.done) =>
        BigLess(BigAbs(keplerResidual(args.e, args.M, result.value.E)),
                <<0, 0, 0, 1000, 0>>)

\* a high eccentricity near the perigee, where the loop needs several updates
C15_Witness_HighEccentricity ==
    /\ fn = "solveKepler"
    /\ result.done
    /\ args.e = <<0, 8999, 0, 0, 0>>
    /\ args.M = <<0, 100, 0, 0, 0>>
    /\ result.value.updates >= 4

\* 1e-8 km: what the rounding of the long arithmetic may add to a distance
DISTANCE_TOLERANCE == <<0, 0, 0, 1, 0>>

\* the distance d is the radius r, and lies between a(1 - e) and a(1 + e)
OnTheEllipse(tle, d, r) ==
    /\ BigLeq(BigAbs(BigSub(d, r)), DISTANCE_TOLERANCE)
    /\ BigLeq(BigMul(tle.semiMajorAxis, BigSub(BigInt(1), tle.eccentricity)),
              BigAdd(d, DISTANCE_TOLERANCE))
    /\ BigLeq(d, BigAdd(BigMul(tle.semiMajorAxis, BigAdd(BigInt(1), tle.eccentricity)),
                        DISTANCE_TOLERANCE))

PerigeeAboveSurface(tle) == BigLess(BigInt(0), tle.perigeeAltitude)

\* C14: for a record with perigee above the surface calculateSatellitePosition
\* returns altitude > 0 at every time: the returned distance equals
\* a(1 - e cos E) for the E the solver ends on, and lies between the perigee
\* radius a(1 - e) and the apogee radius a(1 + e).
C14_AltitudePositive ==
    (fn = "testPositionCalculation" /\ result.done
        /\ PerigeeAboveSurface(args.tleData.value)) =>
        /\ BigLess(BigInt(0), result.value.altitude)
        /\ OnTheEllipse(args.tleData.value, result.value.distance,
                        orbitRadius(args.tleData.value,
                                    anomalyAt(args.tleData.value, timeSinceEpoch(args.ms))))

\* the eccentric MOLNIYA orbit ten days after the epoch
C14_Witness_EccentricOrbit ==
    /\ fn = "testPositionCalculation"
    /\ result.done
    /\ args.sample = "MOLNIYA"
    /\ args.ms = 864000000
    /\ PerigeeAboveSurface(args.tleData.value)
    /\ BigLess(BigInt(0), result.value.altitude)


(***************************************************************************)
(* APP: the handlers of the App component on a running session.  A handler *)
(* called from the control panel belongs to the last render, and so does   *)
(* the recomputeGlobalCoverage it hands to setTimeout.  A click finds the  *)
(* updates of the click before it rendered; the frames of the satellites   *)
(* call updateSatelliteCoverage at any time.                               *)
(***************************************************************************)
\* handler calls of one behaviour: Date.now(), counted from the start of the
\* behaviour, advances by one with each call
MAX_CLOCK == 2

\* what is submitted to addTLESatellite: the ISS sample, and the ISS sample
\* with the last character of its second line missing
tleInput(k) ==
    IF k = "TRUNCATED"
    THEN [SAMPLE_TLES.ISS EXCEPT !.line2 = SubSeq(@, 1, Len(@) - 1)]
    ELSE SAMPLE_TLES[k]

\* the quick-add buttons pressed
QuickAdds == {"ISS"}

\* the texts pasted for a bulk add, as the triples parseBulkTleInput finds
BulkInputs == {<<"TRUNCATED">>, <<"ISS", "ISS">>, <<"ISS", "TRUNCATED">>}

\* a satellite added earlier in the session, in a lower orbit than the ISS
LOW_SATELLITE == "LOW ORBIT"

\* where the frames of a satellite find it: in low orbit over the pole of the
\* scene, the satellite of the lower orbit lower on the same axis
framePosition(name) == IF name = LOW_SATELLITE THEN "LOW_N" ELSE "LEO_N"

\* the minimum elevation of the session
SessionElevations == {20}

\* the sessions at the start: the names of the satellites added so far
Sessions ==
    {<<>>, <<SAMPLE_TLES.ISS.name>>, <<SAMPLE_TLES.ISS.name, LOW_SATELLITE>>}

\* the satellites of a session, every flag as addTLESatellite set it, added
\* at earlier values of Date.now()
sessionSatellites(sc) ==
    [k \in 1..Len(sc) |-> newSatellite(k - Len(sc), sc[k])]

\* every satellite of a session has had a frame
sessionCoverageData(sc, elevation) ==
    [id \in (1 - Len(sc))..0 |->
        StoredCoverageAt(framePosition(sc[id + Len(sc)]), elevation)]

\* the coverage data of a session: every satellite has had a frame, or (two
\* satellites just added) none has had one yet
SessionData(sc, elevation) ==
    {sessionCoverageData(sc, elevation)}
        \cup (IF Len(sc) = 2 THEN {EmptyMap} ELSE {})

\* a session whose timers have run, each in a closure that held no coverage
\* data yet
AppSessionInit ==
    /\ \E sc \in Sessions, elevation \in SessionElevations :
         \E data \in SessionData(sc, elevation) :
           /\ tleSatellites = sessionSatellites(sc)
           /\ satelliteCoverageData = data
           /\ rendered = closureOf(sessionSatellites(sc), data)
           /\ minElevationAngle = elevation
    /\ clock = 0
    /\ globalCoverage = [percent |-> 0, areaKm2 |-> 0]
    /\ gridCache = EmptyMap
    /\ timers = <<>>
    /\ fn = "App"
    /\ args = <<>>
    /\ result = NotCalled

\* the last render shows the state
Settled == rendered = closureOf(tleSatellites, satelliteCoverageData)

idsOf(sats) == {sats[k].id : k \in 1..Len(sats)}

\* the triples the forEach of handleAddTleSatellite has still to add
pendingTriples ==
    IF fn \in {"handleAddTleSatellite", "addTLESatellite"} THEN args.triples
    ELSE <<>>

\* no handler is running
Idle == pendingTriples = <<>>

\* a click: the updates and the timers of the click before it are done
Clickable == Idle /\ Settled /\ timers = <<>> /\ clock < MAX_CLOCK

\* the Add button below the pasted text: handleAddTleSatellite up to its loop
HandleAddTleSatellite ==
    /\ Clickable
    /\ \E triples \in BulkInputs : args' = [triples |-> triples]
    /\ fn' = "handleAddTleSatellite"
    /\ result' = NotCalled
    /\ clock' = clock + 1
    /\ UNCHANGED <<tleSatellites, satelliteCoverageData, minElevationAngle,
                   globalCoverage, gridCache, rendered, timers>>

\* the calls of addTLESatellite that can come next, each with the value of
\* Date.now() it reads: the next call of the loop, in the millisecond of the
\* call before it or in the next one, or a click on a quick-add button
addCalls ==
    IF ~Idle
    THEN {[input |-> Head(pendingTriples), now |-> t,
           triples |-> Tail(pendingTriples)] : t \in {clock, clock + 1}}
    ELSE IF Clickable
    THEN {[input |-> k, now |-> clock + 1, triples |-> <<>>] : k \in QuickAdds}
    ELSE {}

\* addTLESatellite(name, line1, line2)
AddTLESatellite ==
    /\ \E call \in addCalls :
         \E r \in {parseTLE(Str(tleInput(call.input).line1),
                            Str(tleInput(call.input).line2),
                            tleInput(call.input).name)} :
           /\ tleSatellites' =
                IF r.ok
                THEN Append(tleSatellites,
                            newSatellite(call.now, tleInput(call.input).name))
                ELSE tleSatellites
           /\ args' = [input |-> call.input, triples |-> call.triples]
           /\ result' = Returned(r.ok)
           /\ clock' = call.now
    /\ fn' = "addTLESatellite"
    /\ UNCHANGED <<satelliteCoverageData, minElevationAngle, globalCoverage,
                   gridCache, rendered, timers>>

\* the remove button of a satellite of the list calls onRemoveTLESatellite(id)
RemoveTLESatellite ==
    /\ Clickable
    /\ \E id \in idsOf(rendered.tleSatellites) :
         /\ tleSatellites' = withoutId(tleSatellites, id)
         /\ args' = [id |-> id]
    /\ timers' = scheduled(timers)
    /\ fn' = "removeTLESatellite"
    /\ result' = Returned(Undefined)
    /\ clock' = clock + 1
    /\ UNCHANGED <<satelliteCoverageData, minElevationAngle, globalCoverage,
                   gridCache, rendered>>

\* a frame of a satellite that the last render shows with its coverage calls
\* onCoverageUpdate
UpdateSatelliteCoverage ==
    /\ Idle
    /\ clock < MAX_CLOCK
    /\ \E k \in 1..Len(rendered.tleSatellites) :
         /\ rendered.tleSatellites[k].showCoverage
         /\ \E coverageData \in
                {StoredCoverageAt(framePosition(rendered.tleSatellites[k].rawName),
                                  minElevationAngle)} :
              /\ satelliteCoverageData' =
                   merged(satelliteCoverageData, rendered.tleSatellites[k].id,
                          coverageData)
              /\ args' = [satelliteId |-> rendered.tleSatellites[k].id,
                          coverageData |-> coverageData]
    /\ timers' = scheduled(timers)
    /\ fn' = "updateSatelliteCoverage"
    /\ result' = Returned(Undefined)
    /\ clock' = clock + 1
    /\ UNCHANGED <<tleSatellites, minElevationAngle, globalCoverage, gridCache,
                   rendered>>

\* the buttons of the control panel that switch a flag of every satellite
ToggledProperties == {"showCoverage", "showOrbit"}

ToggleAllSatelliteVisibility ==
    /\ Clickable
    /\ \E property \in ToggledProperties, value \in BOOLEAN :
         /\ tleSatellites' = withProperty(tleSatellites, property, value)
         /\ timers' = IF property = "showCoverage" THEN scheduled(timers) ELSE timers
         /\ args' = [property |-> property, value |-> value]
    /\ fn' = "toggleAllSatelliteVisibility"
    /\ result' = Returned(Undefined)
    /\ clock' = clock + 1
    /\ UNCHANGED <<satelliteCoverageData, minElevationAngle, globalCoverage,
                   gridCache, rendered>>

\* React renders the App with the state as it is
Render ==
    /\ Idle
    /\ ~Settled
    /\ rendered' = closureOf(tleSatellites, satelliteCoverageData)
    /\ UNCHANGED <<tleSatellites, satelliteCoverageData, minElevationAngle,
                   globalCoverage, gridCache, timers, clock>>
    /\ UNCHANGED harnessVars

\* the oldest pending timer fires: recomputeGlobalCoverage of its render
RunTimer ==
    /\ Idle
    /\ timers # <<>>
    /\ \E r \in {recomputeGlobalCoverage(Head(timers).tleSatellites,
                                         Head(timers).satelliteCoverageData,
                                         gridCache)} :
         /\ globalCoverage' = [percent |-> r.percent, areaKm2 |-> r.areaKm2]
         /\ gridCache' = r.gridCache
    /\ timers' = Tail(timers)
    /\ UNCHANGED <<tleSatellites, satelliteCoverageData, minElevationAngle,
                   rendered, clock>>
    /\ UNCHANGED harnessVars

AppNext ==
    \/ HandleAddTleSatellite
    \/ AddTLESatellite
    \/ RemoveTLESatellite
    \/ UpdateSatelliteCoverage
    \/ ToggleAllSatelliteVisibility
    \/ Render
    \/ RunTimer

AppSpec == AppSessionInit /\ [][AppNext]_vars


\* a step in which a pending timer fires
TimerFires == Len(timers') < Len(timers)

\* the caps recomputeGlobalCoverage samples in the closure of a timer
capsOf(timer) ==
    IF Len(activeSatIds(timer.tleSatellites)) = 0 THEN <<>>
    ELSE dropDominated(rawSats(timer.tleSatellites, timer.satelliteCoverageData))

\* the cache after a request for the grid of step degrees: a grid that is
\* stored stays, a grid that is not is built and stored
afterRequest(cache, step) ==
    IF GridKey(step, step) \in DOMAIN cache THEN cache
    ELSE [k \in DOMAIN cache \cup {GridKey(step, step)} |->
            IF k \in DOMAIN cache THEN cache[k] ELSE NewGrid(step, step)]

\* C16: across any sequence of union recomputations the grid of a key is
\* built at most once: the first request for a key stores its grid, a later
\* request for the key finds that grid and leaves the cache as it is, and no
\* step modifies or removes a stored entry.
C16_GridBuiltOnce ==
    [][/\ \A k \in DOMAIN gridCache :
            k \in DOMAIN gridCache' /\ gridCache'[k] = gridCache[k]
       /\ IF TimerFires /\ capsOf(Head(timers)) # <<>>
          THEN gridCache' = afterRequest(gridCache, chooseStep(capsOf(Head(timers))))
          ELSE gridCache' = gridCache]_vars

\* two recomputations have asked for grids of different keys: the grid of 1
\* degree, stored by the first, is still there beside the grid of 1/2 degree
C16_Witness_TwoGrids ==
    /\ DOMAIN gridCache = {GridKey(DEG, DEG), GridKey(DEG \div 2, DEG \div 2)}
    /\ gridCache[GridKey(DEG, DEG)] = NewGrid(DEG, DEG)
    /\ timers = <<>>
    /\ globalCoverage.percent > 0


\* the two values recomputeGlobalCoverage sets
valuesOf(r) == [percent |-> r.percent, areaKm2 |-> r.areaKm2]

Reverse(seq) == [k \in 1..Len(seq) |-> seq[Len(seq) + 1 - k]]

\* the cache after earlier invocations have asked for the grid of every step
stockedCache ==
    getLatLonGrid(
        getLatLonGrid(getLatLonGrid(EmptyMap, DEG \div 2, DEG \div 2).cache,
                      DEG \div 4, DEG \div 4).cache,
        DEG, DEG).cache

\* a cache in the other condition: empty for one that holds grids, stocked
\* for the empty one
otherCache(cache) == IF cache = EmptyMap THEN stockedCache ELSE EmptyMap

\* C17: the union estimator is deterministic: an invocation sets the
\* (percent, areaKm2) that an invocation over the same caps listed in the
\* reverse order sets, whatever invocations came before, and whether the grid
\* is cached or has to be built.
C17_UnionDeterministic ==
    [][TimerFires =>
         globalCoverage' =
            valuesOf(recomputeGlobalCoverage(Reverse(Head(timers).tleSatellites),
                                             Head(timers).satelliteCoverageData,
                                             otherCache(gridCache)))]_vars

\* an invocation over the cap of the one satellite left has set its union,
\* after an earlier invocation over two caps had stored another grid
C17_Witness_AfterEarlierInvocation ==
    /\ timers = <<>>
    /\ Len(tleSatellites) = 1
    /\ tleSatellites[1].showCoverage
    /\ GridKey(DEG, DEG) \in DOMAIN gridCache
    /\ GridKey(DEG \div 2, DEG \div 2) \in DOMAIN gridCache
    /\ globalCoverage.percent > 0
    /\ globalCoverage.percent <=
         satelliteCoverageData[tleSatellites[1].id].coveragePercentage


\* a step that is a call of the handler named
Called(handler) == fn' = handler /\ <<fn, args, clock>>' # <<fn, args, clock>>

\* seq without its k-th element
removeAt(seq, k) == SubSeq(seq, 1, k - 1) \o SubSeq(seq, k + 1, Len(seq))

\* C18: the remove button of a satellite removes exactly that one satellite:
\* the list shrinks by one, and every other satellite stays in the list,
\* unchanged and in the same order.
C18_RemovesExactlyOne ==
    [][Called("removeTLESatellite") =>
         \E k \in 1..Len(tleSatellites) :
            /\ tleSatellites[k].id = args'.id
            /\ tleSatellites' = removeAt(tleSatellites, k)]_vars

\* parseTLE throws for nothing but a line that is missing or short or that
\* starts with the wrong digit
accepted(t) ==
    /\ ~linesTooShort(Str(t.line1), Str(t.line2))
    /\ ~wrongLeadingDigit(Str(t.line1), Str(t.line2))

\* C19: when parseTLE succeeds, addTLESatellite returns true and appends
\* exactly one satellite, with showOrbit, showTrail and showCoverage all true,
\* so that the counter of the list grows by one; when parseTLE throws, it
\* returns false and leaves the list as it is.
C19_AddAppendsOneOrNone ==
    [][Called("addTLESatellite") =>
         IF accepted(tleInput(args'.input))
         THEN /\ result' = Returned(TRUE)
              /\ Len(tleSatellites') = Len(tleSatellites) + 1
              /\ SubSeq(tleSatellites', 1, Len(tleSatellites)) = tleSatellites
              /\ tleSatellites'[Len(tleSatellites')].showOrbit
              /\ tleSatellites'[Len(tleSatellites')].showTrail
              /\ tleSatellites'[Len(tleSatellites')].showCoverage
         ELSE /\ result' = Returned(FALSE)
              /\ tleSatellites' = tleSatellites]_vars

\* a bulk add of two triples: the first call has appended its satellite, the
\* second, on a line that is too short, has returned false
C19_Witness_SecondOfBulkRejected ==
    /\ fn = "addTLESatellite"
    /\ args = [input |-> "TRUNCATED", triples |-> <<>>]
    /\ result = Returned(FALSE)
    /\ Len(tleSatellites) = 1
    /\ tleSatellites[1].showCoverage
    /\ tleSatellites[1].id > 0


\* no satellite has showCoverage set
NoneActive == \A k \in 1..Len(tleSatellites) : ~tleSatellites[k].showCoverage

\* the last handler called has left no satellite with showCoverage set: it
\* switched the coverage of all satellites off, or removed the last active one
LeftNoneActive ==
    /\ NoneActive
    /\ \/ /\ fn = "toggleAllSatelliteVisibility"
          /\ args = [property |-> "showCoverage", value |-> FALSE]
       \/ fn = "removeTLESatellite"

\* C20: whenever an action has left no satellite with showCoverage set, the
\* global union on display is 0 percent and 0 km2 once the recompute that the
\* action scheduled has run.
C20_ZeroWhenNoneActive ==
    (LeftNoneActive /\ timers = <<>>) =>
        globalCoverage = [percent |-> 0, areaKm2 |-> 0]


(***************************************************************************)
(* STEP HARNESS: the choice of the resolution of recomputeGlobalCoverage   *)
(* for a number of surviving caps and a smallest central angle.            *)
(***************************************************************************)
CapCounts == {1, 2, 19, 20, 21, 22, 39, 40, 41, 60}

\* smallest central angles in 1/DEG degrees, from a thousandth of a degree
\* to a hemisphere
SmallestAngles ==
    {1, 1500, 2999, 3000, 3001, 4500, 5999, 6000, 6001, 19750, 90000}

StepInit ==
    /\ AppInit
    /\ fn = "chooseStep"
    /\ \E count \in CapCounts, minPsi \in SmallestAngles :
         args = [length |-> count, minPsiDeg |-> minPsi]
    /\ result = NotCalled

\* lines 187-195: latStep and lonStep are set together
CallChooseStep ==
    /\ fn = "chooseStep"
    /\ ~result.done
    /\ result' = Returned([latStep |-> stepFor(args.length, args.minPsiDeg),
                           lonStep |-> stepFor(args.length, args.minPsiDeg)])
    /\ UNCHANGED <<fn, args>>
    /\ UNCHANGED appVars

StepNext == CallChooseStep

StepSpec == StepInit /\ [][StepNext]_vars

\* C21: the step is 0.25 degrees if count > 40 or minPsi < 3, otherwise 0.5
\* degrees if count > 20 or minPsi < 6, otherwise 1 degree, and latitude and
\* longitude have the same step.
C21_AdaptiveStep ==
    (fn = "chooseStep" /\ result.done) =>
        /\ result.ok
        /\ result.value.lonStep = result.value.latStep
        /\ result.value.latStep =
             (IF args.length > 40 \/ args.minPsiDeg < 3 * DEG THEN DEG \div 4
              ELSE IF args.length > 20 \/ args.minPsiDeg < 6 * DEG THEN DEG \div 2
              ELSE DEG)

\* 20 caps of which the smallest has exactly 6 degrees: the step of 1 degree
C21_Witness_AtTheThresholds ==
    /\ fn = "chooseStep"
    /\ args = [length |-> 20, minPsiDeg |-> 6 * DEG]
    /\ result = Returned([latStep |-> DEG, lonStep |-> DEG])

(***************************************************************************)
(* KEPLER HARNESS: the Newton-Raphson loop over the eccentricities of the  *)
(* line-2 field, those near 1 included, where 1 - e cos E comes near 0.    *)
(***************************************************************************)
HighEccentricities == {<<0, d, 0, 0, 0>> : d \in {9500, 9700, 9900}}

\* mean anomalies near the perigee and around the orbit
PerigeeAnomalies ==
    {<<0, 100, 0, 0, 0>>, <<0, 500, 0, 0, 0>>, <<0, 1000, 0, 0, 0>>,
     <<0, 5000, 0, 0, 0>>, <<1, 0, 0, 0, 0>>, <<3, 0, 0, 0, 0>>,
     <<6, 0, 0, 0, 0>>, <<6, 2000, 0, 0, 0>>, <<6, 2800, 0, 0, 0>>}

KeplerInit ==
    /\ AppInit
    /\ fn = "solveKepler"
    /\ \/ \E e \in Eccentricities, M \in MeanAnomalies : args = [e |-> e, M |-> M]
       \/ \E e \in HighEccentricities, M \in PerigeeAnomalies :
            args = [e |-> e, M |-> M]
    /\ result = NotCalled

KeplerNext == CallSolveKepler

KeplerSpec == KeplerInit /\ [][KeplerNext]_vars

\* the corrections dE of the first n Newton-Raphson updates from E, with no
\* stopping rule
RECURSIVE newtonCorrections(_, _, _, _)
RECURSIVE newtonAfter(_, _, _, _, _)
newtonCorrections(e, M, E, n) ==
    IF n = 0 THEN <<>> ELSE newtonAfter(e, M, E, keplerCorrection(e, M, E), n)

newtonAfter(e, M, E, dE, n) == <<dE>> \o newtonCorrections(e, M, BigSub(E, dE), n - 1)

\* x - t[1] - ... - t[Len(t)], subtracted in this order
RECURSIVE lessAll(_, _)
lessAll(x, t) == IF t = <<>> THEN x ELSE lessAll(BigSub(x, Head(t)), Tail(t))

\* r is what the loop returns from E = M when t are the corrections of its
\* updates: none but the last is below the tolerance, the last is unless the
\* loop has used its ten updates, and E is M less the corrections
stopsAtFirstSmall(M, t, r) ==
    /\ Len(t) \in 1..KEPLER_ITERATIONS
    /\ \A k \in 1..(Len(t) - 1) : ~BigLess(BigAbs(t[k]), KEPLER_TOLERANCE)
    /\ Len(t) < KEPLER_ITERATIONS => BigLess(BigAbs(t[Len(t)]), KEPLER_TOLERANCE)
    /\ r.dE = t[Len(t)]
    /\ r.E = lessAll(M, t)

\* C22: the loop terminates: from E = M it makes at most 10 updates, stops
\* right after the first update with |dE| < 1e-12, and at the cap returns
\* the current E without an error.
C22_KeplerLoopTerminates ==
    (fn = "solveKepler" /\ result.done) =>
        /\ result.ok
        /\ result.value.updates \in 1..10
        /\ stopsAtFirstSmall(args.M,
                             newtonCorrections(args.e, args.M, args.M,
                                               result.value.updates),
                             result.value)

\* e = 0.99, M = 0.05: the tenth correction is still 4.7e-9, and E is returned
C22_Witness_CapReached ==
    /\ fn = "solveKepler"
    /\ args = [e |-> <<0, 9900, 0, 0, 0>>, M |-> <<0, 500, 0, 0, 0>>]
    /\ result.done
    /\ result.ok
    /\ result.value.updates = 10
    /\ ~BigLess(BigAbs(result.value.dE), KEPLER_TOLERANCE)

(***************************************************************************)
(* NON-FINITE HARNESS: calculateCoverageGeometry on scene positions whose  *)
(* components may be NaN or infinite (what calculateSatellitePosition      *)
(* yields from NaN elements or a mean motion of 0).                        *)
(***************************************************************************)
PositiveInfinity == [kind |-> "+inf", q |-> 0, f |-> 0]
NegativeInfinity == [kind |-> "-inf", q |-> 0, f |-> 0]

\* the components of a position: NaN, the infinities, 0 and 2.125
Components ==
    {NotANumber, PositiveInfinity, NegativeInfinity, Fin(0),
     Fin(2125 * (SCALE \div 1000))}

GeometryElevations == {0, 20, 45, 90}

\* a record of calculateCoverageGeometry with every number tagged
Tagged(coverage) ==
    [height |-> Fin(coverage.height),
     radius |-> Fin(coverage.radius),
     angle |-> coverage.angle,
     coverageRadius |-> Fin(coverage.coverageRadius),
     coveragePercentage |-> Fin(coverage.coveragePercentage),
     coverageAreaKm2 |-> Fin(coverage.coverageAreaKm2),
     centralAngle |-> coverage.centralAngle,
     satelliteAltitudeKm |-> Fin(coverage.satelliteAltitudeKm)]

\* satDistance is NaN: `realSatDistance <= REAL_EARTH_RADIUS` is false, and
\* u, psi_e (Math.max(0, NaN)) and all that follows are NaN
NaNGeometry ==
    [height |-> NotANumber, radius |-> NotANumber, angle |-> NotANumber,
     coverageRadius |-> NotANumber, coveragePercentage |-> NotANumber,
     coverageAreaKm2 |-> NotANumber, centralAngle |-> NotANumber,
     satelliteAltitudeKm |-> NotANumber]

\* satDistance is Infinity: the test for the surface is false, u = R / d is
\* 0, psi_e is the angle of u = 0, and realSatDistance - p and
\* realSatDistance - REAL_EARTH_RADIUS are Infinity
InfiniteGeometry(minElevation) ==
    [height |-> PositiveInfinity,
     radius |-> Fin(coneBaseRadius(psi_e(0, minElevation))),
     angle |-> Fin(psi_e(0, minElevation)),
     coverageRadius |-> Fin(coneBaseRadius(psi_e(0, minElevation))),
     coveragePercentage |-> Fin(coveragePercentage(psi_e(0, minElevation))),
     coverageAreaKm2 |-> Fin(sphericalCapArea(psi_e(0, minElevation))),
     centralAngle |-> Fin(psi_e(0, minElevation)),
     satelliteAltitudeKm |-> PositiveInfinity]

\* the kinds of the components of a position
kindsOf(position) == {position.x.kind, position.y.kind, position.z.kind}

\* calculateCoverageGeometry(satellitePosition) for tagged components: the
\* sum of the squares is NaN if a component is NaN, and else Infinity if
\* one is infinite
calculateCoverageGeometryOf(satellitePosition, minElevation) ==
    IF "nan" \in kindsOf(satellitePosition) THEN NaNGeometry
    ELSE IF kindsOf(satellitePosition) # {"fin"} THEN InfiniteGeometry(minElevation)
    ELSE Tagged(calculateCoverageGeometry(Vec(satellitePosition.x.q,
                                              satellitePosition.y.q,
                                              satellitePosition.z.q),
                                          minElevation))

GeometryInit ==
    /\ AppInit
    /\ fn = "calculateCoverageGeometry"
    /\ result = NotCalled
    /\ \E x \in Components, y \in Components, z \in Components,
          e \in GeometryElevations :
         args = [satellitePosition |-> Vec(x, y, z), minElevationAngle |-> e]

\* const coverage = calculateCoverageGeometry(scenePos)
CallCoverageGeometryOf ==
    /\ fn = "calculateCoverageGeometry"
    /\ ~result.done
    /\ result' = Returned(calculateCoverageGeometryOf(args.satellitePosition,
                                                      args.minElevationAngle))
    /\ UNCHANGED <<fn, args>>
    /\ UNCHANGED appVars

GeometryNext == CallCoverageGeometryOf

GeometrySpec == GeometryInit /\ [][GeometryNext]_vars

\* a component of the position is NaN or infinite
NonFinite(position) == kindsOf(position) # {"fin"}

\* C23: a position or distance that is NaN or infinite raises no exception
\* and gives a zero cap: the coverage record has centralAngle = 0 and
\* area = 0 (and so the cap adds nothing to the union).
C23_NonFiniteGivesZeroCap ==
    (/\ fn = "calculateCoverageGeometry"
     /\ result.done
     /\ NonFinite(args.satellitePosition)) =>
        /\ result.ok
        /\ result.value.centralAngle = Fin(0)
        /\ result.value.coverageAreaKm2 = Fin(0)

(***************************************************************************)
(* EPOCH HARNESS: the epoch fields of line 1 as parseTLE reads them, on a  *)
(* host whose local time is timezoneOffset minutes behind UTC              *)
(* (Date.prototype.getTimezoneOffset on January 1).                        *)
(***************************************************************************)
\* 24 * 60 * 60 * 1000
MS_PER_DAY == 86400000
MS_PER_MINUTE == 60000

\* the leap days of the years 1 .. year - 1
LeapDaysBefore(year) ==
    (year - 1) \div 4 - (year - 1) \div 100 + (year - 1) \div 400

\* the days from 1970-01-01 to January 1 of the year
DayFromYear(year) ==
    365 * (year - 1970) + LeapDaysBefore(year) - LeapDaysBefore(1970)

\* an instant: whole days since 1970-01-01T00:00Z and milliseconds of the day
Instant(day, ms) == [day |-> day + ms \div MS_PER_DAY, ms |-> ms % MS_PER_DAY]

\* the whole days and the 10^-8 days of an epochDay of up to eight decimals
wholeDays(epochDay) ==
    DigitsToInt(SubSeq(epochDay.digs, 1, Len(epochDay.digs) + epochDay.e10))

dayFraction(epochDay) ==
    DigitsToInt(SubSeq(epochDay.digs, Len(epochDay.digs) + epochDay.e10 + 1,
                       Len(epochDay.digs))) * 10^(8 + epochDay.e10)

\* f * 10^-8 days in milliseconds, the part below a millisecond dropped as
\* setTime does: f * 864 / 1000
fractionMs(f) == (f \div 1000) * 864 + ((f % 1000) * 864) \div 1000

\* const epochDate = new Date(fullEpochYear, 0, 1): midnight of January 1 in
\* the local time of the host;
\* epochDate.setTime(epochDate.getTime() + (epochDay - 1) * 24 * 60 * 60 * 1000)
epochDate(fullYear, epochDay, timezoneOffset) ==
    IF fullYear.kind # "fin" \/ epochDay.kind # "fin" THEN "Invalid Date"
    ELSE Instant(DayFromYear(IntValue(fullYear)) + wholeDays(epochDay) - 1,
                 timezoneOffset * MS_PER_MINUTE + fractionMs(dayFraction(epochDay)))

\* the epoch fields of the record parseTLE returns
epochOf(epochYear, epochDay, timezoneOffset) ==
    [epochYear |-> fullEpochYear(epochYear),
     epochDay |-> epochDay,
     epochDate |-> epochDate(fullEpochYear(epochYear), epochDay, timezoneOffset)]

\* lines 143-144 and 156-161 of parseTLE
parseEpoch(tleLine1, timezoneOffset) ==
    epochOf(parseInt(substring(tleLine1, 18, 20)),
            parseFloat(substring(tleLine1, 20, 32)), timezoneOffset)

\* the epoch day fields: January 1 at 0 h, July 1 at noon of a common year,
\* the last day of a leap year at 6 h
EpochDayFields ==
    {<<"0","0","1",".","0","0","0","0","0","0","0","0">>,
     <<"1","8","2",".","5","0","0","0","0","0","0","0">>,
     <<"3","6","6",".","2","5","0","0","0","0","0","0">>}

\* UTC, New York, Berlin and Kolkata
HostTimezoneOffsets == {0, 300, -60, -330}

\* line 1 of the ISS sample with another epoch
withEpoch(tens, units, dayField) ==
    SubSeq(ISS_LINE1, 1, 18) \o <<DigitChars[tens + 1], DigitChars[units + 1]>>
        \o dayField \o SubSeq(ISS_LINE1, 33, Len(ISS_LINE1))

EpochInit ==
    /\ AppInit
    /\ fn = "parseEpoch"
    /\ result = NotCalled
    /\ \E tens \in 0..9, units \in 0..9, dayField \in EpochDayFields,
          tz \in HostTimezoneOffsets :
         args = [tleLine1 |-> withEpoch(tens, units, dayField),
                 timezoneOffset |-> tz]

CallParseEpoch ==
    /\ fn = "parseEpoch"
    /\ ~result.done
    /\ result' = Returned(parseEpoch(args.tleLine1, args.timezoneOffset))
    /\ UNCHANGED <<fn, args>>
    /\ UNCHANGED appVars

EpochNext == CallParseEpoch

EpochSpec == EpochInit /\ [][EpochNext]_vars

\* the two-digit year written in columns 19-20 of the line
twoDigitYear(tleLine1) == 10 * DigitVal(tleLine1[19]) + DigitVal(tleLine1[20])

\* C24: the two-digit epoch year yy of a TLE maps to the year 2000 + yy when
\* yy < 57 and to 1900 + yy when yy >= 57, for every yy in 0..99.
C24_EpochYearPivot ==
    (fn = "parseEpoch" /\ result.done) =>
        /\ result.ok
        /\ twoDigitYear(args.tleLine1) \in 0..99
        /\ result.value.epochYear =
             FromInt(IF twoDigitYear(args.tleLine1) < 57
                     THEN 2000 + twoDigitYear(args.tleLine1)
                     ELSE 1900 + twoDigitYear(args.tleLine1))

\* the year 57 has been read as 1957
C24_Witness_PivotYear ==
    /\ fn = "parseEpoch"
    /\ result.done
    /\ twoDigitYear(args.tleLine1) = 57
    /\ result.value.epochYear = FromInt(1957)

\* C29: the epoch instant parseTLE produces is fixed by the epoch year and
\* the epoch day of line 1 alone: parsing the same line on a host in another
\* time zone yields the same instant.
C29_EpochInstantAbsolute ==
    (fn = "parseEpoch" /\ result.done) =>
        \A tz \in HostTimezoneOffsets :
            parseEpoch(args.tleLine1, tz).epochDate = result.value.epochDate

(***************************************************************************)
(* BULK HARNESS: parseBulkTleInput on pasted texts of a few short lines.   *)
(***************************************************************************)
NEWLINE == "\n"

\* the position of the first line break of s from position i on, Len(s) + 1
\* if there is none
RECURSIVE lineEnd(_, _)
lineEnd(s, i) == IF i > Len(s) \/ s[i] = NEWLINE THEN i ELSE lineEnd(s, i + 1)

\* input.split('\n')
RECURSIVE split(_)
split(input) ==
    IF lineEnd(input, 1) > Len(input) THEN <<input>>
    ELSE <<SubSeq(input, 1, lineEnd(input, 1) - 1)>>
            \o split(SubSeq(input, lineEnd(input, 1) + 1, Len(input)))

\* .map(l => l.trim())
RECURSIVE trimmed(_)
trimmed(lines) ==
    IF lines = <<>> THEN <<>> ELSE <<trim(Head(lines))>> \o trimmed(Tail(lines))

\* .filter(l => l.length > 0)
RECURSIVE nonEmpty(_)
nonEmpty(lines) ==
    IF lines = <<>> THEN <<>>
    ELSE (IF Len(Head(lines)) > 0 THEN <<Head(lines)>> ELSE <<>>)
            \o nonEmpty(Tail(lines))

\* l.startsWith('1 '), l.startsWith('2 ')
startsWith(l, digit) == Len(l) >= 2 /\ l[1] = digit /\ l[2] = " "

UNKNOWN == <<"U", "n", "k", "n", "o", "w", "n">>

\* a slip that takes a line 2 before the pair for its name
nameAt_line2Allowed(lines, i) ==
    IF i - 1 >= 0 /\ ~startsWith(lines[i], "1") THEN lines[i] ELSE UNKNOWN

\* the name of the pair at the 0-based index i: lines[i - 1] unless it
\* starts with '1 ' or '2 ' or there is no such line
nameAt(lines, i) ==
    IF i - 1 >= 0 /\ ~startsWith(lines[i], "1") /\ ~startsWith(lines[i], "2")
    THEN lines[i]
    ELSE UNKNOWN

\* the for loop from the 0-based index i on: a pair found is pushed and the
\* loop goes on behind it
RECURSIVE triplesFrom(_, _)
triplesFrom(lines, i) ==
    IF ~(i < Len(lines) - 1) THEN <<>>
    ELSE IF startsWith(lines[i + 1], "1") /\ startsWith(lines[i + 2], "2")
    THEN <<[name |-> nameAt(lines, i), line1 |-> lines[i + 1],
            line2 |-> lines[i + 2]]>> \o triplesFrom(lines, i + 2)
    ELSE triplesFrom(lines, i + 1)

parseBulkTleInput(input) == triplesFrom(nonEmpty(trimmed(split(input))), 0)

\* the lines of a pasted text: a name, lines 1 and 2 (one of them indented
\* and followed by blanks), an empty line, and a 1 with nothing behind it
PastedLines ==
    {<<"I", "S", "S">>, <<"1", " ", "A">>, <<"2", " ", "B">>,
     <<" ", "2", " ", "C", " ">>, <<>>, <<"1">>}

\* the number of lines of a pasted text
MAX_LINES == 5

\* the lines joined by line breaks
RECURSIVE joined(_)
joined(lines) ==
    IF Len(lines) = 1 THEN Head(lines)
    ELSE Head(lines) \o <<NEWLINE>> \o joined(Tail(lines))

\* the texts of n lines
RECURSIVE TextsOf(_)
TextsOf(n) ==
    IF n = 1 THEN {<<l>> : l \in PastedLines}
    ELSE {<<l>> \o t : l \in PastedLines, t \in TextsOf(n - 1)}

BulkInit ==
    /\ AppInit
    /\ fn = "parseBulkTleInput"
    /\ result = NotCalled
    /\ \E n \in 1..MAX_LINES : \E lines \in TextsOf(n) :
         args = [pasted |-> lines, input |-> joined(lines)]

\* const triples = parseBulkTleInput(tleInput)
CallParseBulkTleInput ==
    /\ fn = "parseBulkTleInput"
    /\ ~result.done
    /\ result' = Returned(parseBulkTleInput(args.input))
    /\ UNCHANGED <<fn, args>>
    /\ UNCHANGED appVars

BulkNext == CallParseBulkTleInput

BulkSpec == BulkInit /\ [][BulkNext]_vars

\* the pasted lines, trimmed, that are not empty
textLines(pasted) == SelectSeq(trimmed(pasted), LAMBDA l : l # <<>>)

\* the first two characters of a line
firstTwo(l) == SubSeq(l, 1, Min(2, Len(l)))

\* the 1-based indices i of L at which a line 1 is followed by a line 2
pairsOf(L) ==
    {i \in 1..(Len(L) - 1) :
        firstTwo(L[i]) = <<"1", " ">> /\ firstTwo(L[i + 1]) = <<"2", " ">>}

\* the triple of the pair at i
tripleOf(L, i) ==
    [name |-> IF /\ i > 1
                 /\ firstTwo(L[i - 1]) # <<"1", " ">>
                 /\ firstTwo(L[i - 1]) # <<"2", " ">>
              THEN L[i - 1]
              ELSE UNKNOWN,
     line1 |-> L[i],
     line2 |-> L[i + 1]]

\* the triples of the pairs of L from index i on, in the order of the text
RECURSIVE triplesOfPairs(_, _)
triplesOfPairs(L, i) ==
    IF i > Len(L) - 1 THEN <<>>
    ELSE (IF i \in pairsOf(L) THEN <<tripleOf(L, i)>> ELSE <<>>)
            \o triplesOfPairs(L, i + 1)

\* C25: parseBulkTleInput returns one triple for each pair of adjacent
\* non-empty trimmed lines of which the first starts with "1 " and the next
\* with "2 "; no line is line1 or line2 of more than one triple; the name
\* is the line just before line1 unless that line starts with "1 " or "2 "
\* (or is missing), and 'Unknown' then.
C25_OneTriplePerPair ==
    (fn = "parseBulkTleInput" /\ result.done) =>
        /\ result.ok
        /\ result.value = triplesOfPairs(textLines(args.pasted), 1)
        /\ Len(result.value) = Cardinality(pairsOf(textLines(args.pasted)))
        /\ \A i, j \in pairsOf(textLines(args.pasted)) :
             i # j => {i, i + 1} \cap {j, j + 1} = {}

\* two blocks, the second without a name: its name is 'Unknown'
C25_Witness_SecondBlockUnnamed ==
    /\ fn = "parseBulkTleInput"
    /\ result.done
    /\ Len(result.value) = 2
    /\ result.value[1].name = <<"I", "S", "S">>
    /\ result.value[2].name = UNKNOWN
    /\ result.value[2].line2 = <<"2", " ", "C">>

\* C26: pruning never discards every cap: when at least one active cap has
\* a finite positive central angle, at least one cap survives the pruning
\* of dominated caps, and the union is not set to 0 for want of caps (two
\* satellites with the same axis and central angle included).
C26_PruningKeepsACap ==
    (UnionReturned /\ CapIds # <<>>) =>
        /\ Len(dropDominated(rawSats(tleSatellites, satelliteCoverageData))) >= 1
        /\ globalCoverage.percent > 0

\* C27: after any sequence of quick adds and bulk adds, the satellites of
\* the list have pairwise distinct ids, so no entry of the coverage data
\* belongs to two satellites.
C27_IdsPairwiseDistinct ==
    \A j, k \in 1..Len(tleSatellites) :
        j # k => tleSatellites[j].id # tleSatellites[k].id

\* C28: coverage updates of different satellites are never lost, however
\* they interleave and however many come before the next render: a call
\* updateSatelliteCoverage(a, x) leaves x for a and every other entry as it
\* was, so after updates (a, x) and (b, y) with a # b the map holds both.
C28_UpdatesNeverLost ==
    [][Called("updateSatelliteCoverage") =>
        /\ DOMAIN satelliteCoverageData' =
             DOMAIN satelliteCoverageData \cup {args'.satelliteId}
        /\ satelliteCoverageData'[args'.satelliteId] = args'.coverageData
        /\ \A id \in DOMAIN satelliteCoverageData \ {args'.satelliteId} :
             satelliteCoverageData'[id] = satelliteCoverageData[id]]_vars

\* two satellites have reported their first coverage, one after the other
\* with no render in between: the map holds both reports
C28_Witness_TwoUpdatesBeforeRender ==
    /\ fn = "updateSatelliteCoverage"
    /\ rendered.satelliteCoverageData = EmptyMap
    /\ DOMAIN satelliteCoverageData = {-1, 0}
    /\ satelliteCoverageData[args.satelliteId] = args.coverageData
    /\ satelliteCoverageData[-1] # satelliteCoverageData[0]
    /\ Len(timers) = 2

(***************************************************************************)
(* TRAIL HARNESS: the trail of one satellite component over its frames.    *)
(* args holds the component: trailPoints.current, the showTrail prop and   *)
(* the number of frames so far; the position of frame n is written n.      *)
(***************************************************************************)
maxTrailLength == 100

\* the frames of a behaviour
MAX_FRAMES == 103

\* the frames after which the panel may switch the trail off or on
SwitchFrames == {0, 50, 51, 101}

\* a slip that appends the point and never removes one
trailWith_unbounded(trail, point) == Append(trail, point)

\* trailPoints.current.push(point);
\* if (trailPoints.current.length > maxTrailLength) trailPoints.current.shift()
trailWith(trail, point) ==
    IF Len(Append(trail, point)) > maxTrailLength THEN Tail(Append(trail, point))
    ELSE Append(trail, point)

\* the component is mounted with an empty trail
TrailInit ==
    /\ AppInit
    /\ fn = "useFrame"
    /\ \E showTrail \in BOOLEAN :
         args = [trailPoints |-> <<>>, showTrail |-> showTrail, frames |-> 0]
    /\ result = NotCalled

\* a frame: the trail is updated if it is shown (Satellite.js updates it on
\* every frame)
UseFrame ==
    /\ fn = "useFrame"
    /\ args.frames < MAX_FRAMES
    /\ args' = [args EXCEPT
                  !.frames = @ + 1,
                  !.trailPoints = IF args.showTrail
                                  THEN trailWith(@, args.frames + 1)
                                  ELSE @]
    /\ UNCHANGED <<fn, result>>
    /\ UNCHANGED appVars

\* a render with the other value of the showTrail prop
SetShowTrail ==
    /\ fn = "useFrame"
    /\ args.frames \in SwitchFrames
    /\ args' = [args EXCEPT !.showTrail = ~@]
    /\ UNCHANGED <<fn, result>>
    /\ UNCHANGED appVars

TrailNext == UseFrame \/ SetShowTrail

TrailSpec == TrailInit /\ [][TrailNext]_vars

\* the last n elements of seq, all of them if there are fewer
lastOf(seq, n) == SubSeq(seq, Max(1, Len(seq) - n + 1), Len(seq))

\* C30: the trail never holds more than 100 points: every frame with the
\* trail shown appends one point and, if the length then exceeds 100,
\* removes the oldest, so the trail holds the most recent positions in
\* order.
C30_TrailBounded ==
    [][fn' = "useFrame" =>
        /\ Len(args'.trailPoints) <= 100
        /\ (args'.frames # args.frames /\ args.showTrail) =>
             args'.trailPoints =
                lastOf(args.trailPoints \o <<args'.frames>>, 100)
        /\ (args'.frames = args.frames \/ ~args.showTrail) =>
             args'.trailPoints = args.trailPoints
        /\ \A k \in 1..(Len(args'.trailPoints) - 1) :
             args'.trailPoints[k] < args'.trailPoints[k + 1]]_vars

\* a full trail from which the oldest points have been removed and which
\* lacks the frames during which the trail was hidden
C30_Witness_OldestRemoved ==
    /\ fn = "useFrame"
    /\ Len(args.trailPoints) = 100
    /\ args.trailPoints[1] > 1
    /\ args.trailPoints[100] = args.frames
    /\ \E k \in 1..99 : args.trailPoints[k + 1] > args.trailPoints[k] + 1

=============================================================================
